---- MODULE Spec2Model ----
(***************************************************************************)
(* Verification model of the structure-preserving translation pipeline of  *)
(* Transit: batch planner, run reconstruction, twin-paragraph insertion,   *)
(* translation cache and the asynchronous orchestrator.                    *)
(*                                                                         *)
(* Each component has its own specification (SpecBatch, SpecRuns, ...).    *)
(* A component that a specification does not exercise is held in its Idle  *)
(* state.  Texts are sequences of one-character strings.                   *)
(***************************************************************************)
EXTENDS Integers, Sequences, FiniteSets, TLC

VARIABLES
    \* ---- BatchOptimizer (utils/batch_optimizer.py) ----
    bo_pc,          \* "init" | "optimized" | "planned"
    bo_texts,       \* texts: sequence of texts
    bo_contexts,    \* contexts: NoContexts or a sequence of context strings
    bo_cfg,         \* [max_batch_size, max_chars_per_batch, enable_context_grouping]
    bo_batches,     \* the returned list of batches (lists of 0-based indices)
    \* ---- DocumentProcessor._apply_translated_text (parsers/document_processor.py) ----
    rr_pc,          \* "init" | "applied"
    rr_para,        \* the original paragraph: [runs, link]
    rr_S,           \* translated_text
    rr_fp,          \* whether the float product may fall below an exact quotient
    rr_out,         \* translated_runs handed to _insert_translation_paragraph_after
    \* ---- DocumentProcessor.translate_document (parsers/document_processor.py) ----
    dc_pc,          \* "loaded" | "translating" | "saved" | "failed"
    dc_body,        \* the container's paragraphs, in document order
    dc_orig,        \* the container as loaded (history)
    dc_contexts,    \* traversal.contexts: ids of the collected paragraphs
    dc_i,           \* position of the loop over contexts (1-based)
    dc_T,           \* which translator is plugged in
    \* ---- TranslationCache (utils/translation_cache.py) ----
    tc_cfg,         \* [max_entries, expiry_days]
    tc_cache,       \* self.cache: the entries in insertion order, each with its key
    tc_stats,       \* self.stats
    tc_now,         \* datetime.now(), in days
    tc_last,        \* the last call and what it returned (history)
    \* ---- AsyncDocumentProcessor._execute_translation_tasks and
    \*      AsyncTranslatorWrapper (parsers/async_document_processor.py,
    \*      translators/async_translator.py) ----
    ax_cfg,         \* [max_concurrent, has_batch, max_batch_size, max_batch_chars]
    ax_tasks,       \* tasks: [text, location], task index = position - 1
    ax_main,        \* "start" | "waiting" | "done" | "raised": position of _execute_translation_tasks
    ax_batches,     \* batches: lists of task indices, in dispatch order
    ax_co,          \* per batch, the coroutine _translate_batch(batch)
    ax_sem,         \* self.semaphore._value
    ax_inflight,    \* calls of the underlying translator that have not returned (history)
    ax_calls,       \* per task, the single-item translator calls made for it (history)
    ax_pending,     \* pending: the batches whose asyncio task is not collected yet
    ax_result,      \* per task, task.result
    ax_ready,       \* ready_tasks: the indices it holds
    ax_next,        \* next_index_to_apply
    ax_applied,     \* the task indices passed to _apply_translated_text, in call order
    ax_writes,      \* per task, the assignments made to task.result (history)
    ax_stats,       \* self.stats of the wrapper: total, successful and failed requests
    \* ---- TranslationCache._make_cache_key on two requests (utils/translation_cache.py) ----
    ck_pc,          \* "init" | "made"
    ck_r1,          \* the first request: [text, source_lang, target_lang, context]
    ck_r2,          \* the second request
    ck_k1,          \* the key of the first request
    ck_k2,          \* the key of the second request
    \* ---- CachedTranslator over a TranslationCache (utils/translation_cache.py) ----
    ct_calls,       \* the calls of translate_text(_async) / translate_batch(_async), in start order (history)
    \* ---- collect_document_contexts and the two pipelines over it (parsers/context_collection.py) ----
    tv_pc,          \* "loaded" | "collected" | "tasks" | "done"
    tv_mode,        \* "sync" (translate_document) | "async" (translate_document_async)
    tv_doc,         \* the document tree: [children, grid, sections]
    tv_orig,        \* the document as loaded (history)
    tv_kind,        \* per paragraph number, what the paragraph holds
    tv_contexts,    \* traversal.contexts
    tv_i,           \* position of the loop over contexts (1-based)
    tv_tasks,       \* the tasks of _create_translation_tasks: [context, text, index]
    tv_sent,        \* the translator calls made, each the list of texts it was given (history)
    tv_raw,         \* result.contexts as lines 56-78 extend it, before the dedup of lines 80-89
    tv_warnings,    \* traversal.warnings
    \* ---- protect_special_characters / restore_special_characters (utils/special_characters.py) ----
    sc_pc,          \* "input" | "protected" | "restored"
    sc_text,        \* the text given to protect_special_characters
    sc_protected,   \* its return value
    sc_restored,    \* the return value of restore_special_characters on it
    \* ---- TranslationCache.save and _load_cache over the files of the cache directory ----
    ps_pc,          \* "start" | "writing" | "saved" | "returned" | "crashed" | "loaded"
    ps_cfg,         \* [cache_file, expiry_days, enable_persistence]
    ps_cache,       \* self.cache of the cache that saves
    ps_files,       \* path |-> file, for the cache path and the temporary path
    ps_prev,        \* the file at the cache path when save was called (history)
    ps_now,         \* the day
    ps_new,         \* self.cache of the TranslationCache constructed afterwards
    \* ---- in-flight translation calls over one TranslationCache: event loop and worker threads ----
    sr_pc,          \* per call: where the call stands
    sr_cfg,         \* [cache, client_async, max_concurrent]: the translator stack and the semaphore size
    sr_calls,       \* per call: the texts of its batch
    sr_where,       \* per call: "loop" | "thread", where the translator's method body runs
    sr_i,           \* per call: the position in its texts
    sr_miss,        \* per call: the positions the cache did not answer
    sr_loop,        \* the call whose coroutine the event loop is running, or 0
    sr_inop,        \* the calls inside TranslationCache.get or TranslationCache.set
    sr_cache,       \* the keys of self.cache
    \* ---- clone_run_formatting / clone_paragraph_formatting ----
    cl_pc,          \* "cloning" | "returned"
    cl_props,       \* the statements of the function that runs, in order
    cl_source,      \* property |-> TRUE when the source has a value for it
    cl_fail,        \* the property whose read or write raises, or 0
    cl_exc,         \* the class of what it raises
    cl_pos,         \* the statement reached
    cl_target,      \* the properties assigned on the target
    cl_logged       \* TRUE when the warning of the outer handler was logged

boVars == <<bo_pc, bo_texts, bo_contexts, bo_cfg, bo_batches>>
rrVars == <<rr_pc, rr_para, rr_S, rr_fp, rr_out>>
dcVars == <<dc_pc, dc_body, dc_orig, dc_contexts, dc_i, dc_T>>
tcVars == <<tc_cfg, tc_cache, tc_stats, tc_now, tc_last>>
axVars == <<ax_cfg, ax_tasks, ax_main, ax_batches, ax_co, ax_sem, ax_inflight,
            ax_calls, ax_pending, ax_result, ax_ready, ax_next, ax_applied, ax_writes,
            ax_stats>>
ckVars == <<ck_pc, ck_r1, ck_r2, ck_k1, ck_k2>>
ctVars == <<ct_calls>>
tvVars == <<tv_pc, tv_mode, tv_doc, tv_orig, tv_kind, tv_contexts, tv_i, tv_tasks, tv_sent,
            tv_raw, tv_warnings>>
scVars == <<sc_pc, sc_text, sc_protected, sc_restored>>
psVars == <<ps_pc, ps_cfg, ps_cache, ps_files, ps_prev, ps_now, ps_new>>
srVars == <<sr_pc, sr_cfg, sr_calls, sr_where, sr_i, sr_miss, sr_loop, sr_inop, sr_cache>>
clVars == <<cl_pc, cl_props, cl_source, cl_fail, cl_exc, cl_pos, cl_target, cl_logged>>

\* The variables of the other components, for each component.
notBo == <<rrVars, dcVars, tcVars, axVars, ckVars, ctVars, tvVars, scVars, psVars, srVars, clVars>>
notRr == <<boVars, dcVars, tcVars, axVars, ckVars, ctVars, tvVars, scVars, psVars, srVars, clVars>>
notDc == <<boVars, rrVars, tcVars, axVars, ckVars, ctVars, tvVars, scVars, psVars, srVars, clVars>>
notTc == <<boVars, rrVars, dcVars, axVars, ckVars, ctVars, tvVars, scVars, psVars, srVars, clVars>>
notAx == <<boVars, rrVars, dcVars, tcVars, ckVars, ctVars, tvVars, scVars, psVars, srVars, clVars>>
notCk == <<boVars, rrVars, dcVars, tcVars, axVars, ctVars, tvVars, scVars, psVars, srVars, clVars>>
notCt == <<boVars, rrVars, dcVars, tcVars, axVars, ckVars, tvVars, scVars, psVars, srVars, clVars>>
\* The cached translator acts on the cache it owns.
notCtTc == <<boVars, rrVars, dcVars, axVars, ckVars, tvVars, scVars, psVars, srVars, clVars>>
notTv == <<boVars, rrVars, dcVars, tcVars, axVars, ckVars, ctVars, scVars, psVars, srVars, clVars>>
notSc == <<boVars, rrVars, dcVars, tcVars, axVars, ckVars, ctVars, tvVars, psVars, srVars, clVars>>
notPs == <<boVars, rrVars, dcVars, tcVars, axVars, ckVars, ctVars, tvVars, scVars, srVars, clVars>>
notSr == <<boVars, rrVars, dcVars, tcVars, axVars, ckVars, ctVars, tvVars, scVars, psVars, clVars>>
notCl == <<boVars, rrVars, dcVars, tcVars, axVars, ckVars, ctVars, tvVars, scVars, psVars, srVars>>

vars == <<bo_pc, bo_texts, bo_contexts, bo_cfg, bo_batches,
          rr_pc, rr_para, rr_S, rr_fp, rr_out,
          dc_pc, dc_body, dc_orig, dc_contexts, dc_i, dc_T,
          tc_cfg, tc_cache, tc_stats, tc_now, tc_last,
          ax_cfg, ax_tasks, ax_main, ax_batches, ax_co, ax_sem, ax_inflight,
          ax_calls, ax_pending, ax_result, ax_ready, ax_next, ax_applied, ax_writes,
          ax_stats,
          ck_pc, ck_r1, ck_r2, ck_k1, ck_k2,
          ct_calls,
          tv_pc, tv_mode, tv_doc, tv_orig, tv_kind, tv_contexts, tv_i, tv_tasks, tv_sent,
          tv_raw, tv_warnings,
          sc_pc, sc_text, sc_protected, sc_restored,
          ps_pc, ps_cfg, ps_cache, ps_files, ps_prev, ps_now, ps_new,
          sr_pc, sr_cfg, sr_calls, sr_where, sr_i, sr_miss, sr_loop, sr_inop, sr_cache,
          cl_pc, cl_props, cl_source, cl_fail, cl_exc, cl_pos, cl_target, cl_logged>>

-----------------------------------------------------------------------------
(* Bounds of the model *)

MaxTexts == 3
MaxTextLen == 2
MaxRuns == 3
MaxRunLen == 2
MaxTransLen == 4
MaxParas == 3
MaxCacheOps == 3
MaxClock == 1
MaxTasks == 3
MaxCalls == 2
MaxVaried == 2
MaxPieces == 3
MaxFlights == 2

-----------------------------------------------------------------------------
(* Generic helpers *)

\* Python's None where the other values are sequences
None == <<"None">>

\* Python's None where the other values are strings
NoneStr == "None"

\* twin_of of a paragraph that is no translation (ids start at 1)
NoTwin == 0

NoContexts == <<"NoContexts">>

Range(s) == {s[i] : i \in 1..Len(s)}

RECURSIVE SumSeq(_)
SumSeq(s) == IF s = <<>> THEN 0 ELSE Head(s) + SumSeq(Tail(s))

RECURSIVE Flatten(_)
Flatten(ss) == IF ss = <<>> THEN <<>> ELSE Head(ss) \o Flatten(Tail(ss))

\* A text of n characters.
TextOfLen(n) == [i \in 1..n |-> "x"]

SeqsUpTo(S, n) == UNION {[1..k -> S] : k \in 0..n}

-----------------------------------------------------------------------------
(* The state of a component that a specification does not exercise *)

BatchIdle ==
    /\ bo_pc = "idle"
    /\ bo_texts = <<>>
    /\ bo_contexts = NoContexts
    /\ bo_cfg = None
    /\ bo_batches = <<>>

RunsIdle ==
    /\ rr_pc = "idle"
    /\ rr_para = None
    /\ rr_S = <<>>
    /\ rr_fp = FALSE
    /\ rr_out = <<>>

DocIdle ==
    /\ dc_pc = "idle"
    /\ dc_body = <<>>
    /\ dc_orig = <<>>
    /\ dc_contexts = <<>>
    /\ dc_i = 0
    /\ dc_T = None

CacheIdle ==
    /\ tc_cfg = None
    /\ tc_cache = <<>>
    /\ tc_stats = None
    /\ tc_now = 0
    /\ tc_last = None

OrchIdle ==
    /\ ax_cfg = None
    /\ ax_tasks = <<>>
    /\ ax_main = "idle"
    /\ ax_batches = <<>>
    /\ ax_co = <<>>
    /\ ax_sem = 0
    /\ ax_inflight = 0
    /\ ax_calls = <<>>
    /\ ax_pending = {}
    /\ ax_result = <<>>
    /\ ax_ready = {}
    /\ ax_next = 0
    /\ ax_applied = <<>>
    /\ ax_writes = <<>>
    /\ ax_stats = None

KeysIdle ==
    /\ ck_pc = "idle"
    /\ ck_r1 = None
    /\ ck_r2 = None
    /\ ck_k1 = None
    /\ ck_k2 = None

CachedIdle ==
    /\ ct_calls = <<>>

TraversalIdle ==
    /\ tv_pc = "idle"
    /\ tv_mode = "idle"
    /\ tv_doc = None
    /\ tv_orig = None
    /\ tv_kind = <<>>
    /\ tv_contexts = <<>>
    /\ tv_i = 0
    /\ tv_tasks = <<>>
    /\ tv_sent = <<>>
    /\ tv_raw = <<>>
    /\ tv_warnings = <<>>

SpecialIdle ==
    /\ sc_pc = "idle"
    /\ sc_text = <<>>
    /\ sc_protected = <<>>
    /\ sc_restored = <<>>

PersistIdle ==
    /\ ps_pc = "idle"
    /\ ps_cfg = None
    /\ ps_cache = <<>>
    /\ ps_files = <<>>
    /\ ps_prev = None
    /\ ps_now = 0
    /\ ps_new = <<>>

SerialIdle ==
    /\ sr_pc = <<>>
    /\ sr_cfg = None
    /\ sr_calls = <<>>
    /\ sr_where = <<>>
    /\ sr_i = <<>>
    /\ sr_miss = <<>>
    /\ sr_loop = 0
    /\ sr_inop = {}
    /\ sr_cache = {}

CloneIdle ==
    /\ cl_pc = "idle"
    /\ cl_props = <<>>
    /\ cl_source = <<>>
    /\ cl_fail = 0
    /\ cl_exc = NoneStr
    /\ cl_pos = 0
    /\ cl_target = {}
    /\ cl_logged = FALSE

-----------------------------------------------------------------------------
(* BatchOptimizer *)

\* Python truthiness of a context string: None and "" are falsy.
Truthy(c) == c # NoneStr /\ c # ""

\* `contexts` as a Python condition: None and [] are falsy.
ContextsGiven(contexts) == contexts # NoContexts /\ contexts # <<>>

\* optimize_batches, lines 68-76: one item per text, index 0-based.
MakeItems(texts, contexts) ==
    [i \in 1..Len(texts) |->
        [index   |-> i - 1,
         length  |-> Len(texts[i]),
         context |-> IF ContextsGiven(contexts) THEN contexts[i] ELSE NoneStr]]

WouldExceedSizeOffByOne(current_batch, max_batch_size) ==
    Len(current_batch) > max_batch_size

\* _optimize_by_size, line 107
WouldExceedSize(current_batch, max_batch_size) ==
    Len(current_batch) >= max_batch_size

WouldExceedCharsIgnoringCurrent(current_chars, length, max_chars) ==
    length > max_chars

WouldExceedCharsAtLimit(current_chars, length, max_chars) ==
    current_chars + length >= max_chars

\* _optimize_by_size, line 108
WouldExceedChars(current_chars, length, max_chars) ==
    current_chars + length > max_chars

\* One iteration of the loop of _optimize_by_size (lines 105-127) on the
\* accumulator st = [batches, current_batch, current_chars].
OptimizeStep(st, item, max_batch_size, max_chars) ==
    LET close == st.current_batch # <<>>
                 /\ (WouldExceedSize(st.current_batch, max_batch_size)
                     \/ WouldExceedChars(st.current_chars, item.length, max_chars))
        st1 == IF close
               THEN [batches       |-> Append(st.batches, st.current_batch),
                     current_batch |-> <<>>,
                     current_chars |-> 0]
               ELSE st
    IN  IF item.length > max_chars
        THEN [st1 EXCEPT !.batches = Append(@, <<item>>)]
        ELSE [st1 EXCEPT !.current_batch = Append(@, item),
                         !.current_chars = @ + item.length]

RECURSIVE OptimizeLoop(_, _, _, _)
OptimizeLoop(st, items, max_batch_size, max_chars) ==
    IF items = <<>> THEN st
    ELSE OptimizeLoop(OptimizeStep(st, Head(items), max_batch_size, max_chars),
                      Tail(items), max_batch_size, max_chars)

OptimizeBySizeDropFinal(items, max_batch_size, max_chars) ==
    OptimizeLoop([batches |-> <<>>, current_batch |-> <<>>, current_chars |-> 0],
                 items, max_batch_size, max_chars).batches

\* _optimize_by_size, lines 89-133
OptimizeBySize(items, max_batch_size, max_chars) ==
    LET st == OptimizeLoop([batches |-> <<>>, current_batch |-> <<>>, current_chars |-> 0],
                           items, max_batch_size, max_chars)
    IN  IF st.current_batch # <<>> THEN Append(st.batches, st.current_batch)
        ELSE st.batches

GroupKeyIgnoringContext(item) == "default"

\* _optimize_with_context_grouping, line 154
GroupKey(item) == IF Truthy(item.context) THEN item.context ELSE "default"

\* The keys of context_groups in insertion (first-occurrence) order.
RECURSIVE GroupOrder(_, _)
GroupOrder(items, seen) ==
    IF items = <<>> THEN <<>>
    ELSE IF GroupKey(Head(items)) \in seen THEN GroupOrder(Tail(items), seen)
    ELSE <<GroupKey(Head(items))>>
         \o GroupOrder(Tail(items), seen \cup {GroupKey(Head(items))})

GroupItems(items, key) == SelectSeq(items, LAMBDA it : GroupKey(it) = key)

RECURSIVE OptimizeGroups(_, _, _, _)
OptimizeGroups(keys, items, max_batch_size, max_chars) ==
    IF keys = <<>> THEN <<>>
    ELSE OptimizeBySize(GroupItems(items, Head(keys)), max_batch_size, max_chars)
         \o OptimizeGroups(Tail(keys), items, max_batch_size, max_chars)

\* _optimize_with_context_grouping, lines 135-166
OptimizeWithContextGrouping(items, max_batch_size, max_chars) ==
    OptimizeGroups(GroupOrder(items, {}), items, max_batch_size, max_chars)

\* optimize_batches, line 87
IndicesOf(batches) ==
    [b \in 1..Len(batches) |-> [j \in 1..Len(batches[b]) |-> batches[b][j].index]]

\* optimize_batches, lines 45-87
OptimizeBatches(texts, contexts, cfg) ==
    IF texts = <<>> THEN <<>>
    ELSE LET ctxs  == IF ContextsGiven(contexts) /\ Len(contexts) # Len(texts)
                      THEN NoContexts ELSE contexts
             items == MakeItems(texts, ctxs)
         IN  IF cfg.enable_context_grouping /\ ContextsGiven(ctxs)
             THEN IndicesOf(OptimizeWithContextGrouping(
                                items, cfg.max_batch_size, cfg.max_chars_per_batch))
             ELSE IndicesOf(OptimizeBySize(
                                items, cfg.max_batch_size, cfg.max_chars_per_batch))

\* _plan_batches, line 231: the sort key of a batch of indices.
BatchChars(texts, batch) ==
    SumSeq([j \in 1..Len(batch) |-> Len(texts[batch[j] + 1])])

\* list.sort(key, reverse=True) is stable: a batch is placed after every
\* batch already placed whose key is greater than or equal to its own.
RECURSIVE InsertByKeyDesc(_, _, _)
InsertByKeyDesc(sorted, batch, texts) ==
    IF sorted = <<>> THEN <<batch>>
    ELSE IF BatchChars(texts, Head(sorted)) >= BatchChars(texts, batch)
         THEN <<Head(sorted)>> \o InsertByKeyDesc(Tail(sorted), batch, texts)
         ELSE <<batch>> \o sorted

RECURSIVE SortFrom(_, _, _)
SortFrom(sorted, rest, texts) ==
    IF rest = <<>> THEN sorted
    ELSE SortFrom(InsertByKeyDesc(sorted, Head(rest), texts), Tail(rest), texts)

RECURSIVE SortDescSeq(_)
SortDescSeq(s) ==
    IF s = <<>> THEN <<>>
    ELSE LET m == CHOOSE x \in Range(s) : \A y \in Range(s) : x >= y
             i == CHOOSE k \in 1..Len(s) : s[k] = m
         IN  <<m>> \o SortDescSeq([k \in 1..(Len(s) - 1) |-> IF k < i THEN s[k] ELSE s[k + 1]])

SortBatchesAndContents(batches, texts) ==
    LET sorted == SortFrom(<<>>, batches, texts)
    IN  [b \in 1..Len(sorted) |-> SortDescSeq(sorted[b])]

\* _plan_batches, lines 230-233
SortLargestFirst(batches, texts) == SortFrom(<<>>, batches, texts)

\* _plan_batches, lines 215-235: the batches as lists of task indices.
PlanBatches(texts, locations, max_batch_size, max_chars) ==
    IF texts = <<>> THEN <<>>
    ELSE SortLargestFirst(
             OptimizeBatches(texts, locations,
                             [max_batch_size          |-> max_batch_size,
                              max_chars_per_batch     |-> max_chars,
                              enable_context_grouping |-> TRUE]),
             texts)

-----------------------------------------------------------------------------
(* Run reconstruction: DocumentProcessor._apply_translated_text             *)
(*                                                                         *)
(* A paragraph is [runs |-> sequence of run texts, link |-> text held by   *)
(* hyperlink children].  paragraph.runs are the direct run children only;  *)
(* paragraph.text also includes the hyperlinks' text.                      *)

RunTexts(para) == para.runs

\* paragraph.text (python-docx >= 1.2: runs and hyperlinks)
ParagraphText(para) == Flatten(para.runs) \o para.link

Min(a, b) == IF a <= b THEN a ELSE b

\* Python slice s[from:to] for 0 <= from, 0 <= to
Slice(s, from, to) == SubSeq(s, from + 1, Min(to, Len(s)))

RECURSIVE Gcd(_, _)
Gcd(a, b) == IF b = 0 THEN a ELSE Gcd(b, a % b)

RECURSIVE IsPowerOfTwo(_)
IsPowerOfTwo(n) == n = 1 \/ (n > 1 /\ n % 2 = 0 /\ IsPowerOfTwo(n \div 2))

\* lines 156-157: progress = (current_pos + run_length) / total_length;
\* translated_limit = int(progress * len(translated_text)), in IEEE doubles.
\* When a/b is not a binary fraction the rounded product may lie just below
\* an exact integer quotient (57/100*100 = 56.99...), and int() then yields
\* one less; fp says whether it does.  a = b gives exactly n.
TranslatedLimit(a, b, n, fp) ==
    LET exact == (a * n) \div b
    IN  IF fp /\ (a * n) % b = 0 /\ exact > 0 /\ ~IsPowerOfTwo(b \div Gcd(a, b))
        THEN exact - 1 ELSE exact

ChunkTextsLen(translated_runs) ==
    SumSeq([k \in 1..Len(translated_runs) |-> Len(translated_runs[k].text)])

\* One iteration of the loop over paragraph.runs (lines 148-174) on the
\* accumulator st = [translated_runs, current_pos]; r is the run's index.
RunStep(st, para, r, total_length, S, fp) ==
    LET text == para.runs[r]
        run_length == Len(text)
        limit == TranslatedLimit(st.current_pos + run_length, total_length, Len(S), fp)
        prev_end == ChunkTextsLen(st.translated_runs)
        chunk == IF total_length > 0 THEN Slice(S, prev_end, limit) ELSE <<>>
    IN  IF text = <<>> THEN st
        ELSE [translated_runs |->
                 IF chunk # <<>>
                 THEN Append(st.translated_runs, [text |-> chunk, original_run |-> r])
                 ELSE st.translated_runs,
              current_pos |-> st.current_pos + run_length]

RECURSIVE RunLoop(_, _, _, _, _, _)
RunLoop(st, para, r, total_length, S, fp) ==
    IF r > Len(para.runs) THEN st
    ELSE RunLoop(RunStep(st, para, r, total_length, S, fp),
                 para, r + 1, total_length, S, fp)

AppendRemainderNever(translated_runs, S) == translated_runs

\* lines 177-179: the remainder goes to the last chunk
AppendRemainder(translated_runs, S) ==
    LET total_translated == ChunkTextsLen(translated_runs)
        n == Len(translated_runs)
    IN  IF total_translated < Len(S)
        THEN [translated_runs EXCEPT ![n].text = @ \o Slice(S, total_translated, Len(S))]
        ELSE translated_runs

\* _apply_translated_text, lines 131-187: the translated_runs with which
\* _insert_translation_paragraph_after is called, <<>> when it is not called.
ApplyTranslatedText(para, S, fp) ==
    IF S = <<>> THEN <<>>
    ELSE LET total_length == Len(ParagraphText(para))
             st == RunLoop([translated_runs |-> <<>>, current_pos |-> 0],
                           para, 1, total_length, S, fp)
         IN  IF st.translated_runs # <<>>
             THEN AppendRemainder(st.translated_runs, S)
             ELSE IF RunTexts(para) # <<>>
                  THEN <<[text |-> S, original_run |-> 1]>>
                  ELSE <<>>

\* The text of the paragraph built from translated_runs (lines 224-225).
TextOfRuns(translated_runs) ==
    Flatten([k \in 1..Len(translated_runs) |-> translated_runs[k].text])

RunAlphabet == {"a", "b"}
LinkTexts == {<<>>, <<"l", "k">>}

\* A translated text of n characters, each distinct.
TransOfLen(n) == [i \in 1..n |-> i]

RunsInit ==
    /\ rr_pc = "init"
    /\ rr_para \in [runs : SeqsUpTo({TextOfLen(n) : n \in 0..MaxRunLen}, MaxRuns),
                    link : LinkTexts]
    \* callers pass only paragraphs whose text is not blank
    /\ ParagraphText(rr_para) # <<>>
    /\ rr_S \in {TransOfLen(n) : n \in 0..MaxTransLen}
    /\ rr_fp \in BOOLEAN
    /\ rr_out = <<>>

\* DocumentProcessor._apply_translated_text(paragraph, translated_text)
ApplyTranslatedTextCall ==
    /\ rr_pc = "init"
    /\ rr_out' = ApplyTranslatedText(rr_para, rr_S, rr_fp)
    /\ rr_pc' = "applied"
    /\ UNCHANGED <<rr_para, rr_S, rr_fp>>
    /\ UNCHANGED notRr

-----------------------------------------------------------------------------
(* Specification of the batch planner: inputs drawn in Init, one action per *)
(* entry point.                                                             *)

BatchSizes == {1, 2}
CharBudgets == {0, 1, 3}
ContextPool == {"", "body", "header"}
Locations == {"body", "header"}

\* the inputs of the two worked scenarios: lengths [1,1,1,1,1000] under
\* max_batch_size 10 and max_chars_per_batch 10, and the five texts of
\* test_optimize_by_size_limit under max_batch_size 2
LongTexts == <<TextOfLen(1), TextOfLen(1), TextOfLen(1), TextOfLen(1), TextOfLen(1000)>>
LongTextsConfig ==
    [max_batch_size |-> 10, max_chars_per_batch |-> 10, enable_context_grouping |-> FALSE]
FiveTexts == [i \in 1..5 |-> TextOfLen(1)]
FiveTextsConfig ==
    [max_batch_size |-> 2, max_chars_per_batch |-> 10000, enable_context_grouping |-> FALSE]

ScenarioInit ==
    /\ bo_pc = "init"
    /\ \/ bo_texts = LongTexts /\ bo_cfg = LongTextsConfig
       \/ bo_texts = FiveTexts /\ bo_cfg = FiveTextsConfig
    /\ bo_contexts \in {NoContexts, [i \in 1..5 |-> "body"]}
    /\ bo_batches = <<>>

BoundedInit ==
    /\ bo_pc = "init"
    /\ bo_texts \in SeqsUpTo({TextOfLen(n) : n \in 0..MaxTextLen}, MaxTexts)
    /\ bo_contexts \in {NoContexts} \cup [1..Len(bo_texts) -> ContextPool]
                       \cup {<<"body">> : k \in {Len(bo_texts)} \ {1}}
    /\ bo_cfg \in [max_batch_size : BatchSizes,
                   max_chars_per_batch : CharBudgets,
                   enable_context_grouping : BOOLEAN]
    /\ bo_batches = <<>>

\* the input of test_context_grouping: four texts of five characters with
\* the contexts A, B, A, B under max_batch_size 10 and 1000 characters
GroupedTexts == [i \in 1..4 |-> TextOfLen(5)]
GroupedContexts == <<"A", "B", "A", "B">>
GroupedConfig ==
    [max_batch_size |-> 10, max_chars_per_batch |-> 1000, enable_context_grouping |-> TRUE]

GroupedInit ==
    /\ bo_pc = "init"
    /\ bo_texts = GroupedTexts
    /\ bo_contexts = GroupedContexts
    /\ bo_cfg = GroupedConfig
    /\ bo_batches = <<>>

BatchInit == BoundedInit \/ ScenarioInit \/ GroupedInit

\* BatchOptimizer.optimize_batches(texts, contexts)
OptimizeBatchesCall ==
    /\ bo_pc = "init"
    /\ bo_batches' = OptimizeBatches(bo_texts, bo_contexts, bo_cfg)
    /\ bo_pc' = "optimized"
    /\ UNCHANGED <<bo_texts, bo_contexts, bo_cfg>>
    /\ UNCHANGED notBo

\* What _create_translation_tasks guarantees of the tasks handed to
\* _plan_batches: non-blank texts, one location string per task.
PlannerInputs ==
    /\ bo_contexts # NoContexts
    /\ Len(bo_contexts) = Len(bo_texts)
    /\ \A i \in 1..Len(bo_texts) :
          Len(bo_texts[i]) >= 1 /\ bo_contexts[i] \in Locations

\* AsyncDocumentProcessor._plan_batches(tasks)
PlanBatchesCall ==
    /\ bo_pc = "init"
    /\ PlannerInputs
    /\ bo_batches' = PlanBatches(bo_texts, bo_contexts,
                                 bo_cfg.max_batch_size, bo_cfg.max_chars_per_batch)
    /\ bo_pc' = "planned"
    /\ UNCHANGED <<bo_texts, bo_contexts, bo_cfg>>
    /\ UNCHANGED notBo

-----------------------------------------------------------------------------
(* DocumentProcessor.translate_document on one container of paragraphs      *)
(*                                                                         *)
(* A paragraph node is [id, runs, link, twin_of]: twin_of is NoTwin for a   *)
(* paragraph of the loaded document and the source's id for an inserted    *)
(* translation paragraph.                                                  *)

IsBlank(text) == \A i \in 1..Len(text) : text[i] = " "

Upper(c) == CASE c = "a" -> "A" [] c = "b" -> "B" [] OTHER -> c

\* translator.translate_text for a non-blank text: a non-empty string
\* (translators raise on an empty response, openai_translator.py line 244).
Translate(kind, text) ==
    CASE kind = "upper"  -> [i \in 1..Len(text) |-> Upper(text[i])]
      [] kind = "double" -> text \o text
      [] kind = "head"   -> <<Upper(Head(text))>>

PositionOf(body, id) == CHOOSE k \in 1..Len(body) : body[k].id = id

FreshId(body) == 1 + Len(body)

InsertAt(body, k, node) ==
    SubSeq(body, 1, k) \o <<node>> \o SubSeq(body, k + 1, Len(body))

InsertTranslationParagraphAtEnd(body, id, translated_runs) ==
    Append(body,
           [id      |-> FreshId(body),
            runs    |-> [r \in 1..Len(translated_runs) |-> translated_runs[r].text],
            link    |-> <<>>,
            twin_of |-> id])

\* _insert_translation_paragraph_after, lines 189-230: addnext on the
\* original's element, then one run per entry of translated_runs.
InsertTranslationParagraphAfter(body, id, translated_runs) ==
    InsertAt(body, PositionOf(body, id),
             [id      |-> FreshId(body),
              runs    |-> [r \in 1..Len(translated_runs) |-> translated_runs[r].text],
              link    |-> <<>>,
              twin_of |-> id])

\* _apply_translated_text as it acts on the container (lines 186-187)
ApplyToBody(body, id, S, fp) ==
    LET para == body[PositionOf(body, id)]
        translated_runs == ApplyTranslatedText([runs |-> para.runs, link |-> para.link], S, fp)
    IN  IF translated_runs # <<>>
        THEN InsertTranslationParagraphAfter(body, id, translated_runs)
        ELSE body

ParaShapes ==
    { [runs |-> << <<"a", "b">> >>,        link |-> <<>>],
      [runs |-> << <<"a">>, <<"b">> >>,    link |-> <<>>],
      [runs |-> << <<>>, <<"b">> >>,       link |-> <<"a">>],
      [runs |-> << <<" ">> >>,             link |-> <<>>],
      [runs |-> <<>>,                      link |-> <<>>],
      [runs |-> <<>>,                      link |-> <<"a", "b">>] }

Translators == {"upper", "double", "head"}

DocInit ==
    /\ dc_pc = "loaded"
    /\ \E shapes \in SeqsUpTo(ParaShapes, MaxParas) :
          dc_body = [k \in 1..Len(shapes) |->
                        [id |-> k, runs |-> shapes[k].runs,
                         link |-> shapes[k].link, twin_of |-> NoTwin]]
    /\ dc_orig = dc_body
    /\ dc_contexts = <<>>
    /\ dc_i = 0
    /\ dc_T \in Translators

\* translate_document, lines 71-72: the paragraphs of the container, in order
\* (collect_document_contexts on a container of paragraphs).
CollectContexts ==
    /\ dc_pc = "loaded"
    /\ dc_contexts' = [k \in 1..Len(dc_body) |-> dc_body[k].id]
    /\ dc_i' = 1
    /\ dc_pc' = "translating"
    /\ UNCHANGED <<dc_body, dc_orig, dc_T>>
    /\ UNCHANGED notDc

CurrentParagraph == dc_body[PositionOf(dc_body, dc_contexts[dc_i])]

\* _translate_paragraph, lines 105-106: blank paragraphs are skipped
SkipBlankParagraph ==
    /\ dc_pc = "translating"
    /\ dc_i <= Len(dc_contexts)
    /\ IsBlank(ParagraphText(CurrentParagraph))
    /\ dc_i' = dc_i + 1
    /\ UNCHANGED <<dc_pc, dc_body, dc_orig, dc_contexts, dc_T>>
    /\ UNCHANGED notDc

\* _translate_paragraph_openai, lines 120-129: the translator returns
TranslateParagraph ==
    /\ dc_pc = "translating"
    /\ dc_i <= Len(dc_contexts)
    /\ ~IsBlank(ParagraphText(CurrentParagraph))
    /\ \E fp \in BOOLEAN :
          dc_body' = ApplyToBody(dc_body, dc_contexts[dc_i],
                                 Translate(dc_T, ParagraphText(CurrentParagraph)), fp)
    /\ dc_i' = dc_i + 1
    /\ UNCHANGED <<dc_pc, dc_orig, dc_contexts, dc_T>>
    /\ UNCHANGED notDc

\* _translate_paragraph_openai, line 122: the translator raises, and nothing
\* in translate_document catches it
TranslateRaises ==
    /\ dc_pc = "translating"
    /\ dc_i <= Len(dc_contexts)
    /\ ~IsBlank(ParagraphText(CurrentParagraph))
    /\ dc_pc' = "failed"
    /\ UNCHANGED <<dc_body, dc_orig, dc_contexts, dc_i, dc_T>>
    /\ UNCHANGED notDc

\* translate_document, lines 90-92
SaveDocument ==
    /\ dc_pc = "translating"
    /\ dc_i > Len(dc_contexts)
    /\ dc_pc' = "saved"
    /\ UNCHANGED <<dc_body, dc_orig, dc_contexts, dc_i, dc_T>>
    /\ UNCHANGED notDc

-----------------------------------------------------------------------------
(* TranslationCache                                                         *)
(*                                                                         *)
(* self.cache is a dict: tc_cache lists its entries in insertion order,    *)
(* each [key, translation, timestamp, last_access, hits].  Times are in    *)
(* days.  The MD5 digest of the key string is taken to be injective: the   *)
(* key is the key string itself.                                           *)

IsSpace(c) == c = " "

RECURSIVE LStrip(_)
LStrip(t) == IF t # <<>> /\ IsSpace(Head(t)) THEN LStrip(Tail(t)) ELSE t

RECURSIVE RStrip(_)
RStrip(t) ==
    IF t # <<>> /\ IsSpace(t[Len(t)]) THEN RStrip(SubSeq(t, 1, Len(t) - 1)) ELSE t

\* str.strip()
Strip(t) == RStrip(LStrip(t))

LowerChar(c) == CASE c = "A" -> "a" [] c = "B" -> "b" [] OTHER -> c

\* str.lower()
Lower(t) == [i \in 1..Len(t) |-> LowerChar(t[i])]

RECURSIVE Join(_, _)
Join(parts, sep) ==
    IF parts = <<>> THEN <<>>
    ELSE IF Len(parts) = 1 THEN Head(parts)
    ELSE Head(parts) \o <<sep>> \o Join(Tail(parts), sep)

\* _make_cache_key, lines 74-104
MakeCacheKey(text, source_lang, target_lang, context) ==
    LET normalized_text == Lower(Strip(text))
        key_parts == <<normalized_text, source_lang, target_lang>>
                     \o (IF context # None /\ context # <<>> THEN <<context>> ELSE <<>>)
    IN  Join(key_parts, "|")

\* the position of key in the dict, 0 when absent
KeyIndex(cache, key) ==
    IF \E k \in 1..Len(cache) : cache[k].key = key
    THEN CHOOSE k \in 1..Len(cache) : cache[k].key = key
    ELSE 0

KeepAll(seq, k) == seq

\* del self.cache[key]
RemoveAt(seq, k) == SubSeq(seq, 1, k - 1) \o SubSeq(seq, k + 1, Len(seq))

IsExpiredAtExpiry(entry, now, expiry_days) == now - entry.timestamp >= expiry_days

\* _is_expired, lines 191-211 (entries written by set always carry a timestamp)
IsExpired(entry, now, expiry_days) == now - entry.timestamp > expiry_days

LessOrEqualAccess(e1, e2) == e1.last_access <= e2.last_access

\* (hits, last_access) tuples compare lexicographically
LessOrEqualUse(e1, e2) ==
    e1.hits < e2.hits \/ (e1.hits = e2.hits /\ e1.last_access <= e2.last_access)

\* _evict_least_used, lines 213-226: min() returns the first minimal key in
\* iteration order
EvictLeastUsed(cache) ==
    IF cache = <<>> THEN cache
    ELSE LET least == CHOOSE k \in 1..Len(cache) :
                         /\ \A j \in 1..Len(cache) : LessOrEqualUse(cache[k], cache[j])
                         /\ \A j \in 1..(k - 1) : ~LessOrEqualUse(cache[j], cache[k])
         IN  RemoveAt(cache, least)

\* get, lines 142-143
TouchEntry(entry, now) == [entry EXCEPT !.hits = @ + 1, !.last_access = now]

\* set, lines 176-185: assigning to an existing key keeps its place in the dict
StoreEntry(cache, key, translation, now) ==
    LET entry == [key |-> key, translation |-> translation,
                  timestamp |-> now, last_access |-> now, hits |-> 0]
        k == KeyIndex(cache, key)
    IN  IF k = 0 THEN Append(cache, entry) ELSE [cache EXCEPT ![k] = entry]

CacheTexts == { <<"a">>, <<"A", " ">>, <<"b">> }
SourceLangs == { <<"nl">> }
TargetLangs == { <<"en">> }
CacheContexts == { None, <<"ctx">> }
Translations == { <<"v1">>, <<"v2">> }
MaxEntriesChoices == {1, 2}
ExpiryChoices == {1}

\* the requests made: every text without context, one text also with context
Requests ==
    { req \in [text : CacheTexts, source_lang : SourceLangs,
               target_lang : TargetLangs, context : CacheContexts] :
        req.context = None \/ req.text = <<"a">> }

\* the key of every request, computed once
KeyTable ==
    [req \in Requests |->
        MakeCacheKey(req.text, req.source_lang, req.target_lang, req.context)]

KeyOf(req) == KeyTable[req]

\* every get and every set counts into exactly one of these
CacheOps == tc_stats.hits + tc_stats.misses + tc_stats.saves

\* entries of a snapshot file, written on earlier days by a cache of any size
SnapshotEntry(req, translation, timestamp, last_access, hits) ==
    [key |-> KeyOf(req), translation |-> translation, timestamp |-> timestamp,
     last_access |-> last_access, hits |-> hits]

Req(text, context) ==
    [text |-> text, source_lang |-> <<"nl">>, target_lang |-> <<"en">>, context |-> context]

\* no file or persistence off; two live entries; an expired and a live entry
Snapshots ==
    { <<>>,
      << SnapshotEntry(Req(<<"a">>, None), <<"v1">>, -1, -1, 1),
         SnapshotEntry(Req(<<"a">>, <<"ctx">>), <<"v2">>, 0, 0, 0) >>,
      << SnapshotEntry(Req(<<"b">>, None), <<"v1">>, -2, -2, 0),
         SnapshotEntry(Req(<<"a">>, None), <<"v1">>, -1, -1, 1) >> }

LoadCacheKeepsExpired(snapshot, now, expiry_days) == snapshot

\* _load_cache, lines 228-253: the snapshot without its expired entries
LoadCache(snapshot, now, expiry_days) ==
    SelectSeq(snapshot, LAMBDA entry : ~IsExpired(entry, now, expiry_days))

\* __init__, lines 39-64, with or without a snapshot to load
CacheInit ==
    /\ tc_cfg \in [max_entries : MaxEntriesChoices, expiry_days : ExpiryChoices]
    /\ \E snapshot \in Snapshots : tc_cache = LoadCache(snapshot, 0, tc_cfg.expiry_days)
    /\ tc_stats = [hits |-> 0, misses |-> 0, saves |-> 0, evictions |-> 0]
    /\ tc_now = 0
    /\ tc_last = [op |-> "init"]

\* get, lines 127-129: the key is absent
CacheGetMiss(req) ==
    /\ CacheOps < MaxCacheOps
    /\ KeyIndex(tc_cache, KeyOf(req)) = 0
    /\ tc_stats' = [tc_stats EXCEPT !.misses = @ + 1]
    /\ tc_last' = [op |-> "get", req |-> req, ret |-> None]
    /\ UNCHANGED <<tc_cfg, tc_cache, tc_now>>
    /\ UNCHANGED notTc

\* get, lines 134-139: the entry is expired and deleted
CacheGetExpired(req) ==
    LET k == KeyIndex(tc_cache, KeyOf(req))
    IN  /\ CacheOps < MaxCacheOps
        /\ k # 0
        /\ IsExpired(tc_cache[k], tc_now, tc_cfg.expiry_days)
        /\ tc_cache' = RemoveAt(tc_cache, k)
        /\ tc_stats' = [tc_stats EXCEPT !.misses = @ + 1, !.evictions = @ + 1]
        /\ tc_last' = [op |-> "get", req |-> req, ret |-> None]
        /\ UNCHANGED <<tc_cfg, tc_now>>
        /\ UNCHANGED notTc

\* get, lines 141-149: a hit
CacheGetHit(req) ==
    LET k == KeyIndex(tc_cache, KeyOf(req))
    IN  /\ CacheOps < MaxCacheOps
        /\ k # 0
        /\ ~IsExpired(tc_cache[k], tc_now, tc_cfg.expiry_days)
        /\ tc_cache' = [tc_cache EXCEPT ![k] = TouchEntry(@, tc_now)]
        /\ tc_stats' = [tc_stats EXCEPT !.hits = @ + 1]
        /\ tc_last' = [op |-> "get", req |-> req, ret |-> tc_cache'[k].translation]
        /\ UNCHANGED <<tc_cfg, tc_now>>
        /\ UNCHANGED notTc

\* TranslationCache.get, lines 106-149
CacheGet == \E req \in Requests :
    CacheGetMiss(req) \/ CacheGetExpired(req) \/ CacheGetHit(req)

\* TranslationCache.set, lines 151-189
CacheSet == \E req \in Requests, translation \in Translations :
    LET key == KeyOf(req)
        evict == KeyIndex(tc_cache, key) = 0 /\ Len(tc_cache) >= tc_cfg.max_entries
        kept == IF evict THEN EvictLeastUsed(tc_cache) ELSE tc_cache
    IN  /\ CacheOps < MaxCacheOps
        /\ tc_cache' = StoreEntry(kept, key, translation, tc_now)
        /\ tc_stats' = [tc_stats EXCEPT
                           !.saves = @ + 1,
                           !.evictions = IF evict /\ tc_cache # <<>> THEN @ + 1 ELSE @]
        /\ tc_last' = [op |-> "set", req |-> req, translation |-> translation]
        /\ UNCHANGED <<tc_cfg, tc_now>>
        /\ UNCHANGED notTc

\* a day passes
CacheTick ==
    /\ tc_now < MaxClock
    /\ tc_now' = tc_now + 1
    /\ UNCHANGED <<tc_cfg, tc_cache, tc_stats, tc_last>>
    /\ UNCHANGED notTc

-----------------------------------------------------------------------------
(* AsyncDocumentProcessor._execute_translation_tasks over                   *)
(* AsyncTranslatorWrapper                                                   *)
(*                                                                         *)
(* One coroutine per batch.  Code between two awaits runs without           *)
(* interruption on the event loop, so each action is the code from one      *)
(* await to the next.  A coroutine record is                                *)
(*   pc     "new"      the asyncio task is created, _translate_batch has    *)
(*                     not started                                          *)
(*          "want"     waiting to enter `async with self.semaphore`         *)
(*          "call"     inside the translator's single or batch call         *)
(*          "fallback" in asyncio.gather over the per-text calls            *)
(*          "finished" the asyncio task is done                             *)
(*   subs   per text of the batch, the per-text fallback call:              *)
(*          "want" | "call" | "ok" | "err"                                  *)
(*   raised whether the batch request raised                                *)
(*   wret   what translate_batch_async returned                             *)
(*   ret    what _translate_batch returned                                  *)
(*   exc    whether _translate_batch raised                                 *)
(*   text_calls, batch_calls                                                *)
(*          the calls _translate_batch made to translate_text_async and to  *)
(*          translate_batch_async of the wrapper (history)                  *)
(*   requests                                                               *)
(*          the batch requests made to the translator (history)             *)

\* what the translator returns for a text
Tr(text) == <<"T">> \o text

TaskText(i) == ax_tasks[i + 1].text

BatchTexts(batch) == [j \in 1..Len(batch) |-> TaskText(batch[j])]

SemaphoreAlwaysFree(value) == TRUE

\* asyncio.Semaphore.acquire returns only while the value is positive
SemaphoreFree(value) == value > 0

FallbackResultDropsFailures(texts, subs) ==
    SelectSeq([j \in 1..Len(texts) |-> IF subs[j] = "err" THEN <<>> ELSE Tr(texts[j])],
              LAMBDA r : r # <<>>)

\* translate_batch_async, lines 172-180: gather(return_exceptions=True), then
\* the original text for every failed call
FallbackResult(texts, subs) ==
    [j \in 1..Len(texts) |-> IF subs[j] = "err" THEN texts[j] ELSE Tr(texts[j])]

\* _execute_translation_tasks, lines 158-164 and 190-196
CheckedResults(results, texts) ==
    IF Len(results) # Len(texts) THEN texts ELSE results

ApplyReadyOnce(ready, next, applied, total) ==
    IF next < total /\ next \in ready
    THEN [ready |-> ready \ {next}, next |-> next + 1, applied |-> Append(applied, next)]
    ELSE [ready |-> ready, next |-> next, applied |-> applied]

RECURSIVE ApplyReadyEagerly(_, _, _, _)
ApplyReadyEagerly(ready, next, applied, total) ==
    IF ready = {} THEN [ready |-> ready, next |-> next, applied |-> applied]
    ELSE LET i == CHOOSE x \in ready : \A y \in ready : x <= y
         IN  ApplyReadyEagerly(ready \ {i}, next + 1, Append(applied, i), total)

\* _execute_translation_tasks, lines 202-206: apply while the low-water mark
\* is ready
RECURSIVE ApplyReady(_, _, _, _)
ApplyReady(ready, next, applied, total) ==
    IF next < total /\ next \in ready
    THEN ApplyReady(ready \ {next}, next + 1, Append(applied, next), total)
    ELSE [ready |-> ready, next |-> next, applied |-> applied]

\* texts of one and of two characters in the body, and a header text
OrchTaskPool == { [text |-> <<"a">>, location |-> "body"],
                  [text |-> <<"b", "c">>, location |-> "body"],
                  [text |-> <<"h">>, location |-> "header"] }
ConcurrencyChoices == {1, 2}
OrchBatchSizes == {2}
OrchBatchChars == {3}

\* the processor and its tasks as _create_translation_tasks leaves them
\* (async_document_processor.py lines 40-49 and 94-113)
OrchInit ==
    /\ ax_cfg \in [max_concurrent : ConcurrencyChoices, has_batch : BOOLEAN,
                   max_batch_size : OrchBatchSizes, max_batch_chars : OrchBatchChars]
    /\ ax_tasks \in SeqsUpTo(OrchTaskPool, MaxTasks)
    /\ ax_main = "start"
    /\ ax_batches = <<>>
    /\ ax_co = <<>>
    /\ ax_sem = ax_cfg.max_concurrent
    /\ ax_inflight = 0
    /\ ax_calls = [i \in 1..Len(ax_tasks) |-> 0]
    /\ ax_pending = {}
    /\ ax_result = [i \in 1..Len(ax_tasks) |-> None]
    /\ ax_ready = {}
    /\ ax_next = 0
    /\ ax_applied = <<>>
    /\ ax_writes = [i \in 1..Len(ax_tasks) |-> 0]
    /\ ax_stats = [total_requests |-> 0, successful_requests |-> 0, failed_requests |-> 0]

NewCoroutine(batch, has_batch) ==
    [pc     |-> "new", subs |-> <<>>,
     raised |-> FALSE, wret |-> <<>>, ret |-> <<>>, exc |-> FALSE,
     text_calls |-> 0, batch_calls |-> 0, requests |-> 0]

UsesSingleCallUpToTwo(batch) == Len(batch) <= 2

\* _translate_batch, line 130: if len(batch) == 1
UsesSingleCall(batch) == Len(batch) = 1

IsSingle(b) == UsesSingleCall(ax_batches[b])

\* _execute_translation_tasks, lines 116-174: plan the batches and create one
\* asyncio task per batch, none awaited yet
MainStart ==
    /\ ax_main = "start"
    /\ \E batches \in {PlanBatches([i \in 1..Len(ax_tasks) |-> ax_tasks[i].text],
                                    [i \in 1..Len(ax_tasks) |-> ax_tasks[i].location],
                                    ax_cfg.max_batch_size, ax_cfg.max_batch_chars)} :
           /\ ax_batches' = batches
           /\ ax_co' = [b \in 1..Len(batches) |-> NewCoroutine(batches[b], ax_cfg.has_batch)]
           /\ ax_pending' = 1..Len(batches)
           /\ ax_main' = IF ax_tasks = <<>> THEN "done" ELSE "waiting"
    /\ UNCHANGED <<ax_cfg, ax_tasks, ax_sem, ax_inflight, ax_calls, ax_result,
                   ax_ready, ax_next, ax_applied, ax_writes, ax_stats>>
    /\ UNCHANGED notAx

\* _translate_batch, lines 130-156: the asyncio task starts and calls
\* translate_text_async for a batch of one task, translate_batch_async
\* otherwise; translate_batch_async goes to its per-text calls at once when
\* the translator has no batch method (async_translator.py lines 98, 126, 160)
Dispatch(b) ==
    /\ ax_co[b].pc = "new"
    /\ ax_co' = [ax_co EXCEPT ![b] =
          IF UsesSingleCall(ax_batches[b])
          THEN [@ EXCEPT !.pc = "want", !.text_calls = @ + 1]
          ELSE IF ax_cfg.has_batch
          THEN [@ EXCEPT !.pc = "want", !.batch_calls = @ + 1]
          ELSE [@ EXCEPT !.pc = "fallback", !.batch_calls = @ + 1,
                         !.subs = [j \in 1..Len(ax_batches[b]) |-> "want"]]]
    /\ UNCHANGED <<ax_cfg, ax_tasks, ax_main, ax_batches, ax_sem, ax_inflight,
                   ax_calls, ax_pending, ax_result, ax_ready, ax_next, ax_applied,
                   ax_writes, ax_stats>>
    /\ UNCHANGED notAx

\* self.stats["total_requests"] += 1 (async_translator.py lines 50, 100, 128)
RequestCounted(stats) == [stats EXCEPT !.total_requests = @ + 1]

\* self.stats["successful_requests"] += 1 (lines 79, 114, 147)
RequestSucceeded(stats) == [stats EXCEPT !.successful_requests = @ + 1]

RequestFailedUncounted(stats) == stats

\* self.stats["failed_requests"] += 1 (lines 83, 123, 156)
RequestFailed(stats) == [stats EXCEPT !.failed_requests = @ + 1]

\* translate_text_async line 49 / translate_batch_async lines 99 and 127:
\* the coroutine enters the semaphore and calls the translator
EnterCall(b) ==
    /\ ax_co[b].pc = "want"
    /\ SemaphoreFree(ax_sem)
    /\ ax_sem' = ax_sem - 1
    /\ ax_inflight' = ax_inflight + 1
    /\ ax_co' = [ax_co EXCEPT ![b].pc = "call",
                              ![b].requests = IF IsSingle(b) THEN @ ELSE @ + 1]
    /\ ax_stats' = RequestCounted(ax_stats)
    /\ ax_calls' = IF IsSingle(b)
                   THEN [ax_calls EXCEPT ![ax_batches[b][1] + 1] = @ + 1]
                   ELSE ax_calls
    /\ UNCHANGED <<ax_cfg, ax_tasks, ax_main, ax_batches, ax_pending, ax_result,
                   ax_ready, ax_next, ax_applied, ax_writes>>
    /\ UNCHANGED notAx

Finish(b, wret, ret, exc) ==
    ax_co' = [ax_co EXCEPT ![b].pc = "finished", ![b].wret = wret,
                           ![b].ret = ret, ![b].exc = exc]

LeaveCallApplying ==
    /\ ax_sem' = ax_sem + 1
    /\ ax_inflight' = ax_inflight - 1
    /\ ax_applied' = Append(ax_applied, ax_next)
    /\ UNCHANGED <<ax_cfg, ax_tasks, ax_main, ax_batches, ax_calls, ax_pending,
                   ax_result, ax_ready, ax_next, ax_writes>>
    /\ UNCHANGED notAx

\* the translator call is over: `async with self.semaphore` is left
LeaveCall ==
    /\ ax_sem' = ax_sem + 1
    /\ ax_inflight' = ax_inflight - 1
    /\ UNCHANGED <<ax_cfg, ax_tasks, ax_main, ax_batches, ax_calls, ax_pending,
                   ax_result, ax_ready, ax_next, ax_applied, ax_writes>>
    /\ UNCHANGED notAx

\* _translate_batch lines 130-143 with translate_text_async returning
SingleReturns(b) ==
    /\ ax_co[b].pc = "call" /\ IsSingle(b)
    /\ Finish(b, <<>>, <<Tr(TaskText(ax_batches[b][1]))>>, FALSE)
    /\ ax_stats' = RequestSucceeded(ax_stats)
    /\ LeaveCall

\* _translate_batch lines 140-143: translate_text_async raised
SingleRaises(b) ==
    /\ ax_co[b].pc = "call" /\ IsSingle(b)
    /\ Finish(b, <<>>, <<TaskText(ax_batches[b][1])>>, FALSE)
    /\ ax_stats' = RequestFailed(ax_stats)
    /\ LeaveCall

\* translate_batch_async lines 105-121 / 135-154: the batch request returns
\* one translation per text
BatchReturns(b) ==
    LET texts == BatchTexts(ax_batches[b])
        wret == [j \in 1..Len(texts) |-> Tr(texts[j])]
    IN  /\ ax_co[b].pc = "call" /\ ~IsSingle(b)
        /\ Finish(b, wret, CheckedResults(wret, texts), FALSE)
        /\ ax_stats' = RequestSucceeded(ax_stats)
        /\ LeaveCall

\* the batch request returns a list of another length (lines 158-164 apply)
BatchReturnsShort(b) ==
    LET texts == BatchTexts(ax_batches[b])
        wret == [j \in 1..(Len(texts) - 1) |-> Tr(texts[j])]
    IN  /\ ax_co[b].pc = "call" /\ ~IsSingle(b)
        /\ Finish(b, wret, CheckedResults(wret, texts), FALSE)
        /\ ax_stats' = RequestSucceeded(ax_stats)
        /\ LeaveCall

\* the batch request returns something without a length: len(results) in
\* line 158 raises inside the asyncio task
BatchReturnsNoList(b) ==
    /\ ax_co[b].pc = "call" /\ ~IsSingle(b)
    /\ Finish(b, <<>>, <<>>, TRUE)
    /\ ax_stats' = RequestSucceeded(ax_stats)
    /\ LeaveCall

BatchRaisesHoldingPermit(b) ==
    /\ ax_co[b].pc = "call" /\ ~IsSingle(b)
    /\ ax_co' = [ax_co EXCEPT ![b].pc = "fallback", ![b].raised = TRUE,
                              ![b].subs = [j \in 1..Len(ax_batches[b]) |-> "want"]]
    /\ ax_stats' = RequestFailed(ax_stats)
    /\ UNCHANGED <<ax_cfg, ax_tasks, ax_main, ax_batches, ax_sem, ax_inflight,
                   ax_calls, ax_pending, ax_result, ax_ready, ax_next, ax_applied,
                   ax_writes>>
    /\ UNCHANGED notAx

\* translate_batch_async lines 122-125 / 155-158 and 160-172: the batch
\* request raised; one translate_text_async per text is gathered
BatchRaises(b) ==
    /\ ax_co[b].pc = "call" /\ ~IsSingle(b)
    /\ ax_co' = [ax_co EXCEPT ![b].pc = "fallback", ![b].raised = TRUE,
                              ![b].subs = [j \in 1..Len(ax_batches[b]) |-> "want"]]
    /\ ax_stats' = RequestFailed(ax_stats)
    /\ LeaveCall

\* translate_text_async line 49, for text j of the fallback of batch b
SubEnterCall(b, j) ==
    /\ ax_co[b].pc = "fallback"
    /\ ax_co[b].subs[j] = "want"
    /\ SemaphoreFree(ax_sem)
    /\ ax_sem' = ax_sem - 1
    /\ ax_inflight' = ax_inflight + 1
    /\ ax_co' = [ax_co EXCEPT ![b].subs[j] = "call"]
    /\ ax_stats' = RequestCounted(ax_stats)
    /\ ax_calls' = [ax_calls EXCEPT ![ax_batches[b][j] + 1] = @ + 1]
    /\ UNCHANGED <<ax_cfg, ax_tasks, ax_main, ax_batches, ax_pending, ax_result,
                   ax_ready, ax_next, ax_applied, ax_writes>>
    /\ UNCHANGED notAx

\* translate_text_async lines 77-85 for text j: the call returns or raises
SubLeaveCall(b, j, outcome) ==
    /\ ax_co[b].pc = "fallback"
    /\ ax_co[b].subs[j] = "call"
    /\ ax_co' = [ax_co EXCEPT ![b].subs[j] = outcome]
    /\ ax_stats' = IF outcome = "ok" THEN RequestSucceeded(ax_stats)
                   ELSE RequestFailed(ax_stats)
    /\ LeaveCall

\* translate_batch_async lines 172-180, then _translate_batch lines 158-166:
\* every gathered call is over
FallbackGathered(b) ==
    LET texts == BatchTexts(ax_batches[b])
        wret == FallbackResult(texts, ax_co[b].subs)
    IN  /\ ax_co[b].pc = "fallback"
        /\ \A j \in 1..Len(texts) : ax_co[b].subs[j] \in {"ok", "err"}
        /\ Finish(b, wret, CheckedResults(wret, texts), FALSE)
        /\ UNCHANGED <<ax_cfg, ax_tasks, ax_main, ax_batches, ax_sem, ax_inflight,
                       ax_calls, ax_pending, ax_result, ax_ready, ax_next, ax_applied, ax_writes,
                       ax_stats>>
        /\ UNCHANGED notAx

TaskResultUncaught(co, texts) == [raised |-> co.exc, results |-> co.ret]

\* lines 184-188: completed.result() gives what _translate_batch returned
\* or raises what it raised; the except clause takes the original texts
TaskResult(co, texts) ==
    IF co.exc THEN [raised |-> FALSE, results |-> texts]
    ELSE [raised |-> FALSE, results |-> co.ret]

\* lines 183-196: the results of one collected asyncio task
CollectedResults(b) ==
    LET texts == BatchTexts(ax_batches[b])
    IN  CheckedResults(TaskResult(ax_co[b], texts).results, texts)

\* the batch and position of task index i
BatchOfTask(i) == CHOOSE b \in 1..Len(ax_batches) : i \in Range(ax_batches[b])
PlaceOfTask(i) ==
    CHOOSE j \in 1..Len(ax_batches[BatchOfTask(i)]) : ax_batches[BatchOfTask(i)][j] = i

KeepPending(pending, done) == pending

\* line 183: batch = pending.pop(completed), for every completed task
PopCompleted(pending, done) == pending \ done

\* lines 198-200: zip(batch, results) pairs the tasks of a batch with the
\* results until the shorter of the two ends
ZippedTasks(b) ==
    {ax_batches[b][j] : j \in 1..Min(Len(ax_batches[b]), Len(CollectedResults(b)))}

\* _execute_translation_tasks, lines 176-213: asyncio.wait returns every
\* pending asyncio task that is done; their results are stored, the ready
\* tasks are applied in index order, and the function returns once nothing
\* is pending.  An exception that left line 185 would leave the function.
MainWake ==
    LET done == {b \in ax_pending : ax_co[b].pc = "finished"}
        filled == UNION {ZippedTasks(b) : b \in done}
        st == ApplyReady(ax_ready \cup filled, ax_next, ax_applied, Len(ax_tasks))
    IN  /\ ax_main = "waiting"
        /\ done # {}
        /\ IF \E b \in done : TaskResult(ax_co[b], BatchTexts(ax_batches[b])).raised
           THEN /\ ax_main' = "raised"
                /\ UNCHANGED <<ax_pending, ax_result, ax_ready, ax_next, ax_applied,
                               ax_writes>>
           ELSE /\ ax_pending' = PopCompleted(ax_pending, done)
                /\ ax_result' = [k \in 1..Len(ax_tasks) |->
                                    IF (k - 1) \in filled
                                    THEN CollectedResults(BatchOfTask(k - 1))[PlaceOfTask(k - 1)]
                                    ELSE ax_result[k]]
                /\ ax_writes' = [k \in 1..Len(ax_tasks) |->
                                    IF (k - 1) \in filled
                                    THEN ax_writes[k] + 1 ELSE ax_writes[k]]
                /\ ax_ready' = st.ready
                /\ ax_next' = st.next
                /\ ax_applied' = st.applied
                /\ ax_main' = IF ax_pending' = {} THEN "done" ELSE "waiting"
        /\ UNCHANGED <<ax_cfg, ax_tasks, ax_batches, ax_co, ax_sem, ax_inflight, ax_calls,
                       ax_stats>>
        /\ UNCHANGED notAx

-----------------------------------------------------------------------------
(* TranslationCache._make_cache_key on pairs of requests                     *)
(*                                                                         *)
(* A language code or a word of a context is one element of the sequence;  *)
(* the separator of the key string is the element "|".                     *)

KeyTexts == { <<"a">>, <<"A", " ">>, <<"b">>, <<"a", "|", "nl", "|", "en">> }
KeySourceLangs == { <<"nl">>, <<"de">> }
KeyTargetLangs == { <<"en">>, <<"fr">> }
\* no context, the empty string, a context, a context holding the separator
KeyContexts == { None, <<>>, <<"ctx">>, <<"nl", "|", "en">> }

KeyRequests == [text : KeyTexts, source_lang : KeySourceLangs,
                target_lang : KeyTargetLangs, context : KeyContexts]

\* two requests as get or set receive them
KeysInit ==
    /\ ck_pc = "init"
    /\ ck_r1 \in KeyRequests
    /\ ck_r2 \in KeyRequests
    /\ ck_k1 = None
    /\ ck_k2 = None

\* _make_cache_key, lines 74-104, for both requests
MakeKeys ==
    /\ ck_pc = "init"
    /\ ck_pc' = "made"
    /\ ck_k1' = MakeCacheKey(ck_r1.text, ck_r1.source_lang, ck_r1.target_lang, ck_r1.context)
    /\ ck_k2' = MakeCacheKey(ck_r2.text, ck_r2.source_lang, ck_r2.target_lang, ck_r2.context)
    /\ UNCHANGED <<ck_r1, ck_r2>>
    /\ UNCHANGED notCk

-----------------------------------------------------------------------------
(* CachedTranslator with caching enabled, over the TranslationCache above   *)
(*                                                                         *)
(* A call is kept as a record:                                              *)
(*   kind    "text" | "batch";  mode  "sync" | "async"                      *)
(*   texts   the texts of the call (one for kind "text")                    *)
(*   pc      "awaiting" (inside the await of the translator) | "done"       *)
(*   before  self.cache.cache and the day when the call started             *)
(*   results what the cache lookups returned, None for a miss               *)
(*   sent    the calls made to the underlying translator, each the list of  *)
(*           texts it was given                                             *)
(*   stored  the (text, translation) pairs passed to cache.set              *)
(*   ret     the returned value(s);  raised  whether the translator raised  *)
(* The synchronous methods run from start to return in one step; the        *)
(* asynchronous ones can be overtaken while they await the translator.      *)

\* cache.get(text, source_lang, target_lang, context) on st = [cache, stats]
CacheGetOp(st, text) ==
    LET k == KeyIndex(st.cache, KeyOf(Req(text, None)))
    IN  IF k = 0
        THEN [cache |-> st.cache,
              stats |-> [st.stats EXCEPT !.misses = @ + 1], ret |-> None]
        ELSE IF IsExpired(st.cache[k], tc_now, tc_cfg.expiry_days)
        THEN [cache |-> RemoveAt(st.cache, k),
              stats |-> [st.stats EXCEPT !.misses = @ + 1, !.evictions = @ + 1],
              ret |-> None]
        ELSE [cache |-> [st.cache EXCEPT ![k] = TouchEntry(@, tc_now)],
              stats |-> [st.stats EXCEPT !.hits = @ + 1],
              ret |-> st.cache[k].translation]

\* cache.set(text, translation, source_lang, target_lang, context)
CacheSetOp(st, text, translation) ==
    LET key == KeyOf(Req(text, None))
        evict == KeyIndex(st.cache, key) = 0 /\ Len(st.cache) >= tc_cfg.max_entries
        kept == IF evict THEN EvictLeastUsed(st.cache) ELSE st.cache
    IN  [cache |-> StoreEntry(kept, key, translation, tc_now),
         stats |-> [st.stats EXCEPT
                       !.saves = @ + 1,
                       !.evictions = IF evict /\ st.cache # <<>> THEN @ + 1 ELSE @]]

\* translate_batch lines 491-498 / translate_batch_async lines 571-577: the
\* lookups, in input order
RECURSIVE LookupAll(_, _, _)
LookupAll(st, texts, results) ==
    IF texts = <<>> THEN [cache |-> st.cache, stats |-> st.stats, results |-> results]
    ELSE LET g == CacheGetOp(st, Head(texts))
         IN  LookupAll(g, Tail(texts), Append(results, g.ret))

\* uncached_indices (1-based)
UncachedIndices(results) ==
    SelectSeq([i \in 1..Len(results) |-> i], LAMBDA i : results[i] = None)

UncachedTextsReversed(texts, results) ==
    LET idx == UncachedIndices(results)
    IN  [j \in 1..Len(idx) |-> texts[idx[Len(idx) + 1 - j]]]

\* uncached_texts
UncachedTexts(texts, results) ==
    LET idx == UncachedIndices(results)
    IN  [j \in 1..Len(idx) |-> texts[idx[j]]]

StoreNothing(st, texts, translated) == st

\* translate_batch lines 511-513 / translate_batch_async lines 609-611
RECURSIVE StoreAll(_, _, _)
StoreAll(st, texts, translated) ==
    IF texts = <<>> \/ translated = <<>> THEN st
    ELSE StoreAll(CacheSetOp(st, Head(texts), Head(translated)),
                  Tail(texts), Tail(translated))

\* the part of a call up to the call of the translator
StartCall(kind, mode, texts) ==
    LET l == LookupAll([cache |-> tc_cache, stats |-> tc_stats], texts, <<>>)
        uncached == UncachedTexts(texts, l.results)
    IN  [cache |-> l.cache, stats |-> l.stats,
         call |-> [kind |-> kind, mode |-> mode, texts |-> texts,
                   pc |-> IF uncached = <<>> THEN "done" ELSE "awaiting",
                   before |-> tc_cache, now |-> tc_now,
                   results |-> l.results,
                   sent |-> IF uncached = <<>> THEN <<>> ELSE <<uncached>>,
                   stored |-> <<>>,
                   ret |-> IF uncached = <<>> THEN l.results ELSE <<>>,
                   raised |-> FALSE]]

\* the part of a call after the translator answered: fill in, store, return
FinishCall(st, call, raised) ==
    LET uncached == UncachedTexts(call.texts, call.results)
        idx == UncachedIndices(call.results)
        translated == [j \in 1..Len(uncached) |-> Tr(uncached[j])]
        s == StoreAll(st, uncached, translated)
        place(i) == CHOOSE j \in 1..Len(idx) : idx[j] = i
    IN  IF raised
        THEN [cache |-> st.cache, stats |-> st.stats,
              call |-> [call EXCEPT !.pc = "done", !.raised = TRUE]]
        ELSE [cache |-> s.cache, stats |-> s.stats,
              call |-> [call EXCEPT
                  !.pc = "done",
                  !.stored = [j \in 1..Len(uncached) |->
                                 [text |-> uncached[j], translation |-> translated[j]]],
                  !.ret = [i \in 1..Len(call.texts) |->
                              IF call.results[i] = None
                              THEN translated[place(i)] ELSE call.results[i]]]]

CallTexts == { <<"a">>, <<"b">> }
CallBatches == { << <<"a">>, <<"b">> >>, << <<"b">>, <<"A", " ">>, <<"b">> >> }

\* CachedTranslator(translator, cache): the cache as constructed
CachedInit ==
    /\ CacheInit
    /\ ct_calls = <<>>

LastCacheCall(call) ==
    IF call.stored # <<>>
    THEN [op |-> "set",
          req |-> Req(call.stored[Len(call.stored)].text, None),
          translation |-> call.stored[Len(call.stored)].translation]
    ELSE [op |-> "get", req |-> Req(call.texts[Len(call.texts)], None),
          ret |-> call.results[Len(call.results)]]

\* translate_text (lines 368-408) and translate_batch (lines 455-517), the
\* translator returning
SyncCall(kind, texts) ==
    LET s == StartCall(kind, "sync", texts)
        f == IF s.call.pc = "done" THEN s ELSE FinishCall(s, s.call, FALSE)
    IN  /\ Len(ct_calls) < MaxCalls
        /\ tc_cache' = f.cache
        /\ tc_stats' = f.stats
        /\ tc_last' = LastCacheCall(f.call)
        /\ ct_calls' = Append(ct_calls, f.call)
        /\ UNCHANGED <<tc_cfg, tc_now>>
        /\ UNCHANGED notCtTc

TranslateText == \E text \in CallTexts : SyncCall("text", <<text>>)

TranslateBatch == \E texts \in CallBatches : SyncCall("batch", texts)

\* translate_text_async (lines 410-453) and translate_batch_async (lines
\* 519-616) up to the await of the translator, or to the return when nothing
\* missed
AsyncStart(kind, texts) ==
    LET s == StartCall(kind, "async", texts)
    IN  /\ Len(ct_calls) < MaxCalls
        /\ tc_cache' = s.cache
        /\ tc_stats' = s.stats
        /\ tc_last' = LastCacheCall(s.call)
        /\ ct_calls' = Append(ct_calls, s.call)
        /\ UNCHANGED <<tc_cfg, tc_now>>
        /\ UNCHANGED notCtTc

TranslateTextAsync == \E text \in CallTexts : AsyncStart("text", <<text>>)

TranslateBatchAsync == \E texts \in CallBatches : AsyncStart("batch", texts)

\* the awaited translator call returns or raises; the rest of the method runs
AsyncResume == \E c \in 1..Len(ct_calls), raised \in BOOLEAN :
    LET f == FinishCall([cache |-> tc_cache, stats |-> tc_stats], ct_calls[c], raised)
    IN  /\ ct_calls[c].pc = "awaiting"
        /\ tc_cache' = f.cache
        /\ tc_stats' = f.stats
        /\ tc_last' = IF raised THEN tc_last ELSE LastCacheCall(f.call)
        /\ ct_calls' = [ct_calls EXCEPT ![c] = f.call]
        /\ UNCHANGED <<tc_cfg, tc_now>>
        /\ UNCHANGED notCtTc

-----------------------------------------------------------------------------
(* collect_document_contexts, and translate_document /                      *)
(* translate_document_async over the collected contexts                     *)
(*                                                                         *)
(* The document tree is kept by element identity:                           *)
(*   children  container (body, header/footer part, table cell) |-> its     *)
(*             block items in order: paragraphs <<"p", n>>, inserted        *)
(*             translation paragraphs <<"x", n>>, tables <<"t", n>>         *)
(*   grid      table |-> rows of cells as table.cell(row, col) answers: a   *)
(*             merged cell stands at each coordinate it spans               *)
(*   sections  per section the six header/footer slots, each                *)
(*             [location, linked, part]                                     *)
(* An element has one parent; it is reached twice where two coordinates     *)
(* name one cell or two sections name one header part.                      *)

Pid(n) == <<"p", n>>
TwinOf(pid) == <<"x", pid[2]>>
Tbl(n) == <<"t", n>>
Cell(n) == <<"c", n>>
Part(n) == <<"h", n>>
Body == <<"body", 0>>

IsParagraph(node) == node[1] \in {"p", "x"}
IsTable(node) == node[1] = "t"

\* the text a paragraph holds, by kind: runs with text, a hyperlink only
\* (no direct run), nothing, a run of white space
Kinds == {"text", "link", "empty", "space"}
TextOfKind(kind) ==
    CASE kind = "text"  -> <<"a">>
      [] kind = "link"  -> <<"l">>
      [] kind = "empty" -> <<>>
      [] kind = "space" -> <<" ">>

\* paragraph.text of a paragraph of the loaded document
TextOfParagraph(pid) == TextOfKind(tv_kind[pid[2]])

\* what a header/footer accessor of a section answers: a region linked to
\* the previous section's, a region with a part of its own, or None
NoPart == <<"none", 0>>
Linked == [linked |-> TRUE, part |-> Part(0)]
LinkedTo(part) == [linked |-> TRUE, part |-> part]
Own(part) == [linked |-> FALSE, part |-> part]
Absent == [linked |-> FALSE, part |-> NoPart]

\* section.header, first_page_header, even_page_header, footer,
\* first_page_footer, even_page_footer (lines 59-77)
Section(header, footer) ==
    << [location |-> "header"] @@ header,
       [location |-> "header_first_page"] @@ Linked,
       [location |-> "header_even_page"] @@ Linked,
       [location |-> "footer"] @@ footer,
       [location |-> "footer_first_page"] @@ Linked,
       [location |-> "footer_even_page"] @@ Linked >>

\* the six accessors of a section in the order of lines 59-77
Variants(header, first_page_header, even_page_header, footer, first_page_footer, even_page_footer) ==
    << [location |-> "header"] @@ header,
       [location |-> "header_first_page"] @@ first_page_header,
       [location |-> "header_even_page"] @@ even_page_header,
       [location |-> "footer"] @@ footer,
       [location |-> "footer_first_page"] @@ first_page_footer,
       [location |-> "footer_even_page"] @@ even_page_footer >>

NoTables == [t \in {} |-> <<>>]

\* a paragraph and a table whose single row is merged into one cell
DocMergedRow ==
    [children |-> (Body :> <<Pid(3), Tbl(1)>>) @@ (Cell(1) :> <<Pid(1)>>),
     grid     |-> (Tbl(1) :> << <<Cell(1), Cell(1), Cell(1)>> >>),
     sections |-> << Section(Linked, Linked) >>]

\* a table with a merged first row and a nested table whose column is
\* merged; two sections naming one header part
DocNested ==
    [children |-> (Body :> <<Tbl(1), Pid(3)>>)
                  @@ (Cell(1) :> <<Pid(1)>>)
                  @@ (Cell(2) :> <<Pid(2), Tbl(2)>>)
                  @@ (Cell(3) :> <<Pid(4)>>)
                  @@ (Cell(4) :> <<Pid(5)>>)
                  @@ (Part(1) :> <<Pid(6)>>)
                  @@ (Part(2) :> <<Pid(7)>>),
     grid     |-> (Tbl(1) :> << <<Cell(1), Cell(1)>>, <<Cell(2), Cell(3)>> >>)
                  @@ (Tbl(2) :> << <<Cell(4)>>, <<Cell(4)>> >>),
     sections |-> << Section(Own(Part(1)), Linked),
                     Section(Own(Part(1)), Own(Part(2))) >>]

\* no table; the second section's header is linked to the first's
DocPlain ==
    [children |-> (Body :> <<Pid(1), Pid(2)>>) @@ (Part(1) :> <<Pid(3)>>),
     grid     |-> NoTables,
     sections |-> << Section(Own(Part(1)), Linked), Section(Linked, Linked) >>]

\* every header/footer variant in use: a header with a table, a part named
\* by two variants, a header linked to the previous section's, an accessor
\* that answers None; Part(4) and Cell(2) are containers without an element
\* to iterate (no children)
DocVariants ==
    [children |-> (Body :> <<Pid(1)>>)
                  @@ (Part(1) :> <<Pid(2), Tbl(1)>>)
                  @@ (Cell(1) :> <<Pid(3)>>)
                  @@ (Part(2) :> <<Pid(4)>>)
                  @@ (Part(3) :> <<Pid(5)>>),
     grid     |-> (Tbl(1) :> << <<Cell(1), Cell(2)>> >>),
     sections |-> << Variants(Own(Part(1)), Own(Part(2)), Absent,
                              Linked, Own(Part(4)), Own(Part(3))),
                     Variants(LinkedTo(Part(1)), Absent, Own(Part(2)),
                              Own(Part(3)), Linked, Linked) >>]

Documents == {DocMergedRow, DocNested, DocPlain, DocVariants}

\* _iter_block_items, lines 151-163: the parent has an element with
\* iterchildren
Supported(doc, parent) == parent \in DOMAIN doc.children

ParagraphsOf(doc) ==
    {node \in UNION {Range(doc.children[c]) : c \in DOMAIN doc.children} :
        IsParagraph(node)}

\* the numbers of the paragraphs of a document
ParaNumbers(doc) == {pid[2] : pid \in ParagraphsOf(doc)}

NoSection == 0 - 1

KeepAllContexts(contexts) == contexts

\* collect_document_contexts, lines 80-89: the first context of each key
RECURSIVE UniqueFrom(_, _)
UniqueFrom(contexts, seen) ==
    IF contexts = <<>> THEN <<>>
    ELSE IF Head(contexts).paragraph \in seen
         THEN UniqueFrom(Tail(contexts), seen)
         ELSE <<Head(contexts)>>
              \o UniqueFrom(Tail(contexts), seen \cup {Head(contexts).paragraph})

UniqueContexts(contexts) == UniqueFrom(contexts, {})

\* the coordinates of a table in the order of the two loops (lines 132-133)
Coordinates(rows) ==
    LET row_count == Len(rows)
        col_count == IF row_count > 0 THEN Len(rows[1]) ELSE 0
    IN  [k \in 1..(row_count * col_count) |->
            <<(k - 1) \div col_count, (k - 1) % col_count>>]

RECURSIVE CollectFromParent(_, _, _, _, _)
RECURSIVE CollectFromTable(_, _, _, _, _, _, _)
RECURSIVE CollectBlocks(_, _, _, _, _)

\* _collect_from_table, lines 125-144, from coordinate number k on
CollectFromTable(doc, table, location, section_index, parent_table_path, k, processed_cells) ==
    LET rows == doc.grid[table]
        coords == Coordinates(rows)
    IN  IF k > Len(coords) THEN <<>>
        ELSE LET rc == coords[k]
                 cell == rows[rc[1] + 1][rc[2] + 1]
             IN  IF cell \in processed_cells
                 THEN CollectFromTable(doc, table, location, section_index,
                                       parent_table_path, k + 1, processed_cells)
                 ELSE CollectFromParent(doc, cell, location, section_index,
                                        Append(parent_table_path, rc))
                      \o CollectFromTable(doc, table, location, section_index,
                                          parent_table_path, k + 1,
                                          processed_cells \cup {cell})

\* the loop of _collect_from_parent over the block items (lines 101-122)
CollectBlocks(doc, blocks, location, section_index, table_path) ==
    IF blocks = <<>> THEN <<>>
    ELSE (IF IsParagraph(Head(blocks))
          THEN << [paragraph |-> Head(blocks), location |-> location,
                   section_index |-> section_index, table_path |-> table_path] >>
          ELSE CollectFromTable(doc, Head(blocks), location, section_index,
                                table_path, 1, {}))
         \o CollectBlocks(doc, Tail(blocks), location, section_index, table_path)

\* _iter_block_items, lines 147-171: the paragraphs and tables of the
\* parent in document order; nothing for a parent it cannot iterate
IterBlockItems(doc, parent) ==
    IF Supported(doc, parent) THEN doc.children[parent] ELSE <<>>

\* _collect_from_parent, lines 99-122
CollectFromParent(doc, parent, location, section_index, table_path) ==
    CollectBlocks(doc, IterBlockItems(doc, parent), location, section_index, table_path)

CollectSectionContextsIgnoringLinked(doc, slot, section_index) ==
    IF slot.part = NoPart THEN <<>>
    ELSE CollectFromParent(doc, slot.part, slot.location, section_index, <<>>)

\* collect_section_contexts, lines 94-97
CollectSectionContexts(doc, slot, section_index) ==
    IF slot.part = NoPart \/ slot.linked THEN <<>>
    ELSE CollectFromParent(doc, slot.part, slot.location, section_index, <<>>)

RECURSIVE CollectSlots(_, _, _)
CollectSlots(doc, slots, section_index) ==
    IF slots = <<>> THEN <<>>
    ELSE CollectSectionContexts(doc, Head(slots), section_index)
         \o CollectSlots(doc, Tail(slots), section_index)

RECURSIVE CollectSections(_, _)
CollectSections(doc, section_index) ==
    IF section_index >= Len(doc.sections) THEN <<>>
    ELSE CollectSlots(doc, doc.sections[section_index + 1], section_index)
         \o CollectSections(doc, section_index + 1)

\* collect_document_contexts, lines 53-78: the body, then the sections
CollectAll(doc) ==
    CollectFromParent(doc, Body, "body", NoSection, <<>>) \o CollectSections(doc, 0)

\* result.warnings: created empty (line 45) and appended to by no line of
\* the traversal; lines 162 and 170 write to the debug log only
TraversalWarnings(doc) == <<>>

\* collect_document_contexts, lines 48-91
CollectDocumentContexts(doc) == UniqueContexts(CollectAll(doc))

\* the container that holds a node
ParentOf(doc, node) ==
    CHOOSE c \in DOMAIN doc.children : node \in Range(doc.children[c])

\* _apply_translated_text and _insert_translation_paragraph_after: a
\* paragraph with runs gets its translation paragraph right after it; without
\* a direct run no translated run is built and nothing is inserted
ApplyTwin(doc, pid) ==
    IF tv_kind[pid[2]] = "link" THEN doc
    ELSE LET parent == ParentOf(doc, pid)
             k == CHOOSE j \in 1..Len(doc.children[parent]) : doc.children[parent][j] = pid
         IN  [doc EXCEPT !.children[parent] =
                 SubSeq(@, 1, k) \o <<TwinOf(pid)>> \o SubSeq(@, k + 1, Len(@))]

NeverSkip(text) == FALSE

\* _translate_paragraph, line 105: not paragraph.text.strip()
SkipParagraph(text) == IsBlank(text)

\* _create_translation_tasks, line 100: not text or not text.strip()
SkipTask(text) == text = <<>> \/ IsBlank(text)

\* Document(input_path), in either pipeline
TraversalInit ==
    /\ tv_pc = "loaded"
    /\ tv_mode \in {"sync", "async"}
    /\ tv_doc \in Documents
    /\ tv_orig = tv_doc
    /\ tv_kind \in {f \in [ParaNumbers(tv_doc) -> Kinds] :
                      \A n \in ParaNumbers(tv_doc) : n > MaxVaried => f[n] = "text"}
    /\ tv_contexts = <<>>
    /\ tv_i = 0
    /\ tv_tasks = <<>>
    /\ tv_sent = <<>>
    /\ tv_raw = <<>>
    /\ tv_warnings = <<>>

\* translate_document lines 71-72 / translate_document_async lines 73-74
Collect ==
    /\ tv_pc = "loaded"
    /\ tv_raw' = CollectAll(tv_doc)
    /\ tv_contexts' = CollectDocumentContexts(tv_doc)
    /\ tv_warnings' = TraversalWarnings(tv_doc)
    /\ tv_i' = 1
    /\ tv_pc' = "collected"
    /\ UNCHANGED <<tv_mode, tv_doc, tv_orig, tv_kind, tv_tasks, tv_sent>>
    /\ UNCHANGED notTv

\* translate_document lines 85-87 with _translate_paragraph (lines 96-129):
\* one paragraph of the loop
TranslateContext ==
    /\ tv_pc = "collected" /\ tv_mode = "sync"
    /\ tv_i <= Len(tv_contexts)
    /\ LET pid == tv_contexts[tv_i].paragraph
           text == TextOfParagraph(pid)
       IN  IF SkipParagraph(text)
           THEN UNCHANGED <<tv_doc, tv_sent>>
           ELSE /\ tv_sent' = Append(tv_sent, <<text>>)
                /\ tv_doc' = ApplyTwin(tv_doc, pid)
    /\ tv_i' = tv_i + 1
    /\ UNCHANGED <<tv_pc, tv_mode, tv_orig, tv_kind, tv_contexts, tv_tasks, tv_raw, tv_warnings>>
    /\ UNCHANGED notTv

\* translate_document lines 89-94: the loop is over
FinishSync ==
    /\ tv_pc = "collected" /\ tv_mode = "sync"
    /\ tv_i > Len(tv_contexts)
    /\ tv_pc' = "done"
    /\ UNCHANGED <<tv_mode, tv_doc, tv_orig, tv_kind, tv_contexts, tv_i, tv_tasks, tv_sent,
                   tv_raw, tv_warnings>>
    /\ UNCHANGED notTv

\* the index of the next task counted over the contexts walked so far
TaskIndexOfContext(walked, tasks) == walked

\* _create_translation_tasks, line 103: task_index = len(tasks)
TaskIndex(walked, tasks) == Len(tasks)

\* _create_translation_tasks, lines 97-111: the loop from context k on
RECURSIVE TasksFrom(_, _, _)
TasksFrom(contexts, k, tasks) ==
    IF k > Len(contexts) THEN tasks
    ELSE LET context == contexts[k]
             text == TextOfParagraph(context.paragraph)
         IN  IF SkipTask(text) THEN TasksFrom(contexts, k + 1, tasks)
             ELSE TasksFrom(contexts, k + 1,
                            Append(tasks, [context |-> context, text |-> text,
                                           index |-> TaskIndex(k - 1, tasks)]))

\* _create_translation_tasks, lines 94-113
CreateTranslationTasks ==
    /\ tv_pc = "collected" /\ tv_mode = "async"
    /\ tv_tasks' = TasksFrom(tv_contexts, 1, <<>>)
    /\ tv_pc' = "tasks"
    /\ UNCHANGED <<tv_mode, tv_doc, tv_orig, tv_kind, tv_contexts, tv_i, tv_sent, tv_raw, tv_warnings>>
    /\ UNCHANGED notTv

RECURSIVE ApplyAll(_, _)
ApplyAll(doc, tasks) ==
    IF tasks = <<>> THEN doc
    ELSE ApplyAll(ApplyTwin(doc, Head(tasks).context.paragraph), Tail(tasks))

\* _execute_translation_tasks, lines 115-213, as a whole: the texts of the
\* planned batches go to the translator and every task is applied in index
\* order
ExecuteTranslationTasks ==
    /\ tv_pc = "tasks"
    /\ \E size \in OrchBatchSizes, chars \in OrchBatchChars :
          LET texts == [k \in 1..Len(tv_tasks) |-> tv_tasks[k].text]
              locations == [k \in 1..Len(tv_tasks) |-> tv_tasks[k].context.location]
              batches == PlanBatches(texts, locations, size, chars)
          IN  tv_sent' = [b \in 1..Len(batches) |->
                             [j \in 1..Len(batches[b]) |-> texts[batches[b][j] + 1]]]
    /\ tv_doc' = ApplyAll(tv_doc, tv_tasks)
    /\ tv_pc' = "done"
    /\ UNCHANGED <<tv_mode, tv_orig, tv_kind, tv_contexts, tv_i, tv_tasks, tv_raw, tv_warnings>>
    /\ UNCHANGED notTv

-----------------------------------------------------------------------------
(* protect_special_characters and restore_special_characters               *)
(*                                                                         *)
(* A text is a sequence of characters.  The six mapped characters are      *)
(* written by their code points; every other character stands for itself.  *)

NBSP == "u00A0"
TAB  == "\t"
EMSP == "u2003"
ENSP == "u2002"
ZWSP == "u200B"
SHY  == "u00AD"

\* SPECIAL_CHARS, lines 12-19, in the dict's order
SPECIAL_CHARS ==
    << <<NBSP, <<"<", "N", "B", "S", "P", ">">> >>,
       <<TAB,  <<"<", "T", "A", "B", ">">> >>,
       <<EMSP, <<"<", "E", "M", "S", "P", ">">> >>,
       <<ENSP, <<"<", "E", "N", "S", "P", ">">> >>,
       <<ZWSP, <<"<", "Z", "W", "S", "P", ">">> >>,
       <<SHY,  <<"<", "S", "H", "Y", ">">> >> >>

\* SPECIAL_CHARS_REVERSE, line 22: same order, pairs turned round
SPECIAL_CHARS_REVERSE ==
    [k \in 1..Len(SPECIAL_CHARS) |-> <<SPECIAL_CHARS[k][2], SPECIAL_CHARS[k][1]>>]

StartsWith(text, old) ==
    /\ Len(old) <= Len(text)
    /\ SubSeq(text, 1, Len(old)) = old

\* str.replace(old, new) for a non-empty old: the occurrences from the
\* left, not overlapping
RECURSIVE Replace(_, _, _)
Replace(text, old, new) ==
    IF text = <<>> THEN <<>>
    ELSE IF StartsWith(text, old)
         THEN new \o Replace(SubSeq(text, Len(old) + 1, Len(text)), old, new)
         ELSE <<Head(text)>> \o Replace(Tail(text), old, new)

\* the loop of lines 43-44 from pair k on
RECURSIVE ProtectFrom(_, _)
ProtectFrom(text, k) ==
    IF k > Len(SPECIAL_CHARS) THEN text
    ELSE ProtectFrom(Replace(text, <<SPECIAL_CHARS[k][1]>>, SPECIAL_CHARS[k][2]), k + 1)

\* protect_special_characters, lines 25-46
protect_special_characters(text) ==
    IF text = <<>> THEN text ELSE ProtectFrom(text, 1)

\* the loop of lines 64-65 from pair k on
RECURSIVE RestoreFrom(_, _)
RestoreFrom(text, k) ==
    IF k > Len(SPECIAL_CHARS_REVERSE) THEN text
    ELSE RestoreFrom(Replace(text, SPECIAL_CHARS_REVERSE[k][1],
                             <<SPECIAL_CHARS_REVERSE[k][2]>>), k + 1)

\* restore_special_characters, lines 49-67
restore_special_characters(text) ==
    IF text = <<>> THEN text ELSE RestoreFrom(text, 1)

\* the pieces the input texts are made of: each mapped character, plain
\* characters, and the characters of a placeholder, whole and in parts
Pieces ==
    { <<NBSP>>, <<TAB>>, <<EMSP>>, <<ENSP>>, <<ZWSP>>, <<SHY>>,
      <<"a">>, <<"<">>, <<"T", "A", "B", ">">>, <<"<", "T", "A", "B", ">">>,
      <<"<", "N", "B", "S", "P", ">">> }

RECURSIVE Concat(_)
Concat(pieces) ==
    IF pieces = <<>> THEN <<>> ELSE Head(pieces) \o Concat(Tail(pieces))

SpecialTexts ==
    {Concat(pieces) : pieces \in UNION {[1..n -> Pieces] : n \in 0..MaxPieces}}

SpecialInit ==
    /\ sc_pc = "input"
    /\ sc_text \in SpecialTexts
    /\ sc_protected = <<>>
    /\ sc_restored = <<>>

\* protected = protect_special_characters(original)
Protect ==
    /\ sc_pc = "input"
    /\ sc_protected' = protect_special_characters(sc_text)
    /\ sc_pc' = "protected"
    /\ UNCHANGED <<sc_text, sc_restored>>
    /\ UNCHANGED notSc

\* restored = restore_special_characters(protected)
Restore ==
    /\ sc_pc = "protected"
    /\ sc_restored' = restore_special_characters(sc_protected)
    /\ sc_pc' = "restored"
    /\ UNCHANGED <<sc_text, sc_protected>>
    /\ UNCHANGED notSc

-----------------------------------------------------------------------------
(* TranslationCache.save and the load of a later TranslationCache           *)
(*                                                                         *)
(* A path is [stem, suffix].  A file is [exists, content]; the content is   *)
(* the sequence of chunks json.dump has written so far: an opening chunk,   *)
(* one chunk per entry of 'cache', and a closing chunk that carries the     *)
(* rest of the object.  A process may stop between any two steps; the      *)
(* files stay as they are.                                                  *)

\* Path.with_suffix: the suffix of the name is replaced, or added when the
\* name has none
WithSuffix(path, suffix) == [path EXCEPT !.suffix = suffix]

\* save, line 269
TempFile(cache_file) == WithSuffix(cache_file, ".tmp")

NoFile == [exists |-> FALSE, content |-> <<>>]

\* json.dump(data, f, indent=2), lines 262-272, as the chunks written
Serialize(cache) ==
    << [kind |-> "open"] >>
    \o [k \in 1..Len(cache) |-> [kind |-> "entry", entry |-> cache[k]]]
    \o << [kind |-> "close"] >>

\* json.load, line 236: a text that is not a whole JSON object raises
WellFormed(content) ==
    /\ Len(content) >= 2
    /\ content[1].kind = "open"
    /\ content[Len(content)].kind = "close"

\* data.get('cache', {}), line 239
ParsedCache(content) ==
    [k \in 1..(Len(content) - 2) |-> content[k + 1].entry]

\* _load_cache, lines 228-253, on the file at the cache path
LoadFile(file, now, expiry_days) ==
    IF ~file.exists THEN <<>>
    ELSE IF ~WellFormed(file.content) THEN <<>>
    ELSE LoadCache(ParsedCache(file.content), now, expiry_days)

\* get, lines 125-149: what it returns
GetResult(cache, req, now, expiry_days) ==
    LET k == KeyIndex(cache, KeyOf(req))
    IN  IF k = 0 THEN None
        ELSE IF IsExpired(cache[k], now, expiry_days) THEN None
        ELSE cache[k].translation

CachePaths == { [stem |-> "translation_cache", suffix |-> ".json"],
                [stem |-> "cache", suffix |-> ""],
                [stem |-> "cache", suffix |-> ".tmp"] }

\* a cache with entries, and the file an earlier save may have left
PersistInit ==
    /\ ps_pc = "start"
    /\ ps_cfg \in [cache_file : CachePaths, expiry_days : ExpiryChoices,
                   enable_persistence : BOOLEAN]
    /\ ps_cache \in Snapshots
    /\ \E old \in {NoFile} \cup {[exists |-> TRUE, content |-> Serialize(snap)] :
                                   snap \in Snapshots} :
          /\ ps_prev = old
          /\ ps_files = [p \in {ps_cfg.cache_file, TempFile(ps_cfg.cache_file)} |->
                            IF p = ps_cfg.cache_file THEN old ELSE NoFile]
    /\ ps_now = 0
    /\ ps_new = <<>>

\* save, lines 257-258: persistence is off
SaveDisabled ==
    /\ ps_pc = "start"
    /\ ~ps_cfg.enable_persistence
    /\ ps_pc' = "returned"
    /\ UNCHANGED <<ps_cfg, ps_cache, ps_files, ps_prev, ps_now, ps_new>>
    /\ UNCHANGED notPs

\* save, line 271: open(temp_file, 'w') creates or empties the file
SaveOpen ==
    /\ ps_pc = "start"
    /\ ps_cfg.enable_persistence
    /\ ps_files' = [ps_files EXCEPT ![TempFile(ps_cfg.cache_file)] =
                       [exists |-> TRUE, content |-> <<>>]]
    /\ ps_pc' = "writing"
    /\ UNCHANGED <<ps_cfg, ps_cache, ps_prev, ps_now, ps_new>>
    /\ UNCHANGED notPs

\* save, line 272: json.dump writes the next chunk
SaveWrite ==
    LET temp == TempFile(ps_cfg.cache_file)
        n == Len(ps_files[temp].content)
    IN  /\ ps_pc = "writing"
        /\ n < Len(Serialize(ps_cache))
        /\ ps_files' = [ps_files EXCEPT ![temp].content =
                           Append(@, Serialize(ps_cache)[n + 1])]
        /\ UNCHANGED <<ps_pc, ps_cfg, ps_cache, ps_prev, ps_now, ps_new>>
        /\ UNCHANGED notPs

\* save, lines 278-279: a write raises (the disk is full); the exception is
\* logged and save returns
SaveWriteFails ==
    /\ ps_pc = "writing"
    /\ Len(ps_files[TempFile(ps_cfg.cache_file)].content) < Len(Serialize(ps_cache))
    /\ ps_pc' = "returned"
    /\ UNCHANGED <<ps_cfg, ps_cache, ps_files, ps_prev, ps_now, ps_new>>
    /\ UNCHANGED notPs

\* save, line 274: temp_file.replace(self.cache_file), one step of the file
\* system
SaveReplace ==
    LET temp == TempFile(ps_cfg.cache_file)
    IN  /\ ps_pc = "writing"
        /\ ps_files[temp].content = Serialize(ps_cache)
        /\ ps_files' = [p \in DOMAIN ps_files |->
                           IF p = ps_cfg.cache_file THEN ps_files[temp] ELSE NoFile]
        /\ ps_pc' = "saved"
        /\ UNCHANGED <<ps_cfg, ps_cache, ps_prev, ps_now, ps_new>>
        /\ UNCHANGED notPs

\* the process stops inside save
SaveCrash ==
    /\ ps_pc = "writing"
    /\ ps_pc' = "crashed"
    /\ UNCHANGED <<ps_cfg, ps_cache, ps_files, ps_prev, ps_now, ps_new>>
    /\ UNCHANGED notPs

\* a day passes between the save and the next start
PersistDayPasses ==
    /\ ps_pc \in {"saved", "returned", "crashed"}
    /\ ps_now < MaxClock
    /\ ps_now' = ps_now + 1
    /\ UNCHANGED <<ps_pc, ps_cfg, ps_cache, ps_files, ps_prev, ps_new>>
    /\ UNCHANGED notPs

\* __init__, lines 61-63: a TranslationCache is constructed on the same file
LoadAgain ==
    /\ ps_pc \in {"saved", "returned", "crashed"}
    /\ ps_new' = LoadFile(ps_files[ps_cfg.cache_file], ps_now, ps_cfg.expiry_days)
    /\ ps_pc' = IF ps_pc = "saved" THEN "loaded" ELSE "restarted"
    /\ UNCHANGED <<ps_cfg, ps_cache, ps_files, ps_prev, ps_now>>
    /\ UNCHANGED notPs

-----------------------------------------------------------------------------
(* AsyncTranslatorWrapper over a translator stack, with the calls of several *)
(* batches in flight                                                        *)
(*                                                                         *)
(* The event loop runs one coroutine at a time, from one await to the next; *)
(* sr_loop names it.  A function handed to run_in_executor runs in a worker *)
(* thread, statement by statement, whatever the loop and the other workers  *)
(* are doing.  get and set of TranslationCache take two steps each: the     *)
(* test of the key, then the update of the dictionary.                      *)

\* A translator stack is [cache, client_async]: CachedTranslator(client) or
\* the client alone, and a client with coroutine methods or with synchronous
\* ones only.

IsCoroutineMethodOfClient(translator) == translator.client_async

\* _is_coroutine_method, lines 36-39: the class of the wrapped translator has
\* the method as a coroutine function; CachedTranslator has both
IsCoroutineMethod(translator) ==
    IF translator.cache THEN TRUE ELSE translator.client_async

SerialTexts == {<<"a">>, <<"b">>}

SerialBatches == {<<t>> : t \in SerialTexts} \cup {<<t, u>> : t, u \in SerialTexts}

\* the calls that hold the semaphore
InFlight == {c \in 1..Len(sr_pc) : sr_pc[c] \notin {"new", "done"}}

\* the code of call c is running: its coroutine has the loop, or it is in a
\* worker thread
Runs(c) == IF sr_where[c] = "loop" THEN sr_loop = c ELSE TRUE

\* the statement after the lookups of a call (translate_batch_async, line 578)
AfterLookups(c, miss) == IF miss = {} THEN "finish" ELSE "call_client"

SerialInit ==
    /\ sr_cfg \in [cache : BOOLEAN, client_async : BOOLEAN,
                   max_concurrent : ConcurrencyChoices]
    /\ \E n \in 1..MaxFlights : sr_calls \in [1..n -> SerialBatches]
    /\ sr_pc = [c \in 1..Len(sr_calls) |-> "new"]
    /\ sr_where = [c \in 1..Len(sr_calls) |-> "loop"]
    /\ sr_i = [c \in 1..Len(sr_calls) |-> 1]
    /\ sr_miss = [c \in 1..Len(sr_calls) |-> {}]
    /\ sr_loop = 0
    /\ sr_inop = {}
    /\ sr_cache \in SUBSET SerialTexts

\* AsyncTranslatorWrapper.translate_text_async, lines 49-75 (and
\* translate_batch_async, lines 98-144): the semaphore is taken and the path
\* is chosen; on the coroutine path the translator's coroutine goes on in the
\* loop, otherwise its synchronous method is handed to the thread pool
BeginCall(c) ==
    /\ sr_pc[c] = "new"
    /\ sr_loop = 0
    /\ Cardinality(InFlight) < sr_cfg.max_concurrent
    /\ IF IsCoroutineMethod(sr_cfg)
       THEN /\ sr_where' = [sr_where EXCEPT ![c] = "loop"]
            /\ sr_loop' = c
       ELSE /\ sr_where' = [sr_where EXCEPT ![c] = "thread"]
            /\ sr_loop' = 0
    /\ sr_pc' = [sr_pc EXCEPT ![c] = IF sr_cfg.cache THEN "get" ELSE "call_client"]
    /\ sr_miss' = [sr_miss EXCEPT ![c] = IF sr_cfg.cache THEN {} ELSE 1..Len(sr_calls[c])]
    /\ UNCHANGED <<sr_cfg, sr_calls, sr_i, sr_inop, sr_cache>>
    /\ UNCHANGED notSr

\* TranslationCache.get, lines 123-127: the key is made and looked up
GetBegin(c) ==
    /\ sr_pc[c] = "get"
    /\ Runs(c)
    /\ sr_inop' = sr_inop \cup {c}
    /\ sr_pc' = [sr_pc EXCEPT ![c] = "get_touch"]
    /\ UNCHANGED <<sr_cfg, sr_calls, sr_where, sr_i, sr_miss, sr_loop, sr_cache>>
    /\ UNCHANGED notSr

\* TranslationCache.get, lines 129-148: the entry is touched (or the miss
\* counted), and CachedTranslator goes to its next text (lines 572-578)
GetEnd(c) ==
    LET hit == sr_calls[c][sr_i[c]] \in sr_cache
        miss == IF hit THEN sr_miss[c] ELSE sr_miss[c] \cup {sr_i[c]}
    IN  /\ sr_pc[c] = "get_touch"
        /\ Runs(c)
        /\ sr_inop' = sr_inop \ {c}
        /\ sr_miss' = [sr_miss EXCEPT ![c] = miss]
        /\ IF sr_i[c] < Len(sr_calls[c])
           THEN /\ sr_i' = [sr_i EXCEPT ![c] = @ + 1]
                /\ sr_pc' = [sr_pc EXCEPT ![c] = "get"]
           ELSE /\ sr_i' = [sr_i EXCEPT ![c] = 1]
                /\ sr_pc' = [sr_pc EXCEPT ![c] = AfterLookups(c, miss)]
        /\ UNCHANGED <<sr_cfg, sr_calls, sr_where, sr_loop, sr_cache>>
        /\ UNCHANGED notSr

\* CachedTranslator.translate_text_async, lines 427-449 (translate_batch_async,
\* lines 580-600): the client is awaited, as a coroutine or through
\* run_in_executor; in a worker thread translate_text calls the client
\* (lines 395-401)
CallClient(c) ==
    /\ sr_pc[c] = "call_client"
    /\ Runs(c)
    /\ sr_pc' = [sr_pc EXCEPT ![c] =
                    IF sr_where[c] = "loop" /\ sr_cfg.client_async
                    THEN "await_client" ELSE "client_in_thread"]
    /\ sr_loop' = IF sr_where[c] = "loop" THEN 0 ELSE sr_loop
    /\ UNCHANGED <<sr_cfg, sr_calls, sr_where, sr_i, sr_miss, sr_inop, sr_cache>>
    /\ UNCHANGED notSr

\* the client's request returns
ClientReturns(c) ==
    /\ sr_pc[c] \in {"await_client", "client_in_thread"}
    /\ sr_pc' = [sr_pc EXCEPT ![c] = "ready"]
    /\ UNCHANGED <<sr_cfg, sr_calls, sr_where, sr_i, sr_miss, sr_loop, sr_inop, sr_cache>>
    /\ UNCHANGED notSr

\* the call goes on after its await: in the loop when the loop is free, in
\* its worker thread at once
ResumeCall(c) ==
    /\ sr_pc[c] = "ready"
    /\ sr_where[c] = "loop" => sr_loop = 0
    /\ sr_loop' = IF sr_where[c] = "loop" THEN c ELSE sr_loop
    /\ sr_pc' = [sr_pc EXCEPT ![c] = IF sr_cfg.cache THEN "set" ELSE "finish"]
    /\ sr_i' = [sr_i EXCEPT ![c] = 1]
    /\ UNCHANGED <<sr_cfg, sr_calls, sr_where, sr_miss, sr_inop, sr_cache>>
    /\ UNCHANGED notSr

\* TranslationCache.set, lines 169-173: the key is made and the room tested;
\* positions the cache answered are passed over (lines 602-604)
SetBegin(c) ==
    /\ sr_pc[c] = "set"
    /\ Runs(c)
    /\ IF sr_i[c] \in sr_miss[c]
       THEN /\ sr_inop' = sr_inop \cup {c}
            /\ sr_pc' = [sr_pc EXCEPT ![c] = "set_store"]
            /\ UNCHANGED sr_i
       ELSE /\ sr_i[c] < Len(sr_calls[c])
            /\ sr_i' = [sr_i EXCEPT ![c] = @ + 1]
            /\ UNCHANGED <<sr_inop, sr_pc>>
    /\ UNCHANGED <<sr_cfg, sr_calls, sr_where, sr_miss, sr_loop, sr_cache>>
    /\ UNCHANGED notSr

\* TranslationCache.set, lines 173-189: eviction and the store of the entry
SetEnd(c) ==
    /\ sr_pc[c] = "set_store"
    /\ Runs(c)
    /\ sr_inop' = sr_inop \ {c}
    /\ sr_cache' = sr_cache \cup {sr_calls[c][sr_i[c]]}
    /\ IF \E j \in sr_miss[c] : j > sr_i[c]
       THEN /\ sr_i' = [sr_i EXCEPT ![c] = @ + 1]
            /\ sr_pc' = [sr_pc EXCEPT ![c] = "set"]
       ELSE /\ sr_pc' = [sr_pc EXCEPT ![c] = "finish"]
            /\ UNCHANGED sr_i
    /\ UNCHANGED <<sr_cfg, sr_calls, sr_where, sr_miss, sr_loop>>
    /\ UNCHANGED notSr

\* the worker thread's function has returned: the wrapper's coroutine is
\* resumed by the loop (async_translator.py, line 66 and line 135)
ThreadDone(c) ==
    /\ sr_pc[c] = "finish"
    /\ sr_where[c] = "thread"
    /\ sr_loop = 0
    /\ sr_where' = [sr_where EXCEPT ![c] = "loop"]
    /\ sr_loop' = c
    /\ UNCHANGED <<sr_pc, sr_cfg, sr_calls, sr_i, sr_miss, sr_inop, sr_cache>>
    /\ UNCHANGED notSr

\* translate_text_async, lines 77-81: the result is returned and the
\* semaphore released
EndCall(c) ==
    /\ sr_pc[c] = "finish"
    /\ sr_where[c] = "loop"
    /\ sr_loop = c
    /\ sr_pc' = [sr_pc EXCEPT ![c] = "done"]
    /\ sr_loop' = 0
    /\ UNCHANGED <<sr_cfg, sr_calls, sr_where, sr_i, sr_miss, sr_inop, sr_cache>>
    /\ UNCHANGED notSr

BeginSomeCall == \E c \in 1..Len(sr_pc) : BeginCall(c)
GetBeginSome == \E c \in 1..Len(sr_pc) : GetBegin(c)
GetEndSome == \E c \in 1..Len(sr_pc) : GetEnd(c)
CallClientSome == \E c \in 1..Len(sr_pc) : CallClient(c)
ClientReturnsSome == \E c \in 1..Len(sr_pc) : ClientReturns(c)
ResumeSomeCall == \E c \in 1..Len(sr_pc) : ResumeCall(c)
SetBeginSome == \E c \in 1..Len(sr_pc) : SetBegin(c)
SetEndSome == \E c \in 1..Len(sr_pc) : SetEnd(c)
ThreadDoneSome == \E c \in 1..Len(sr_pc) : ThreadDone(c)
EndSomeCall == \E c \in 1..Len(sr_pc) : EndCall(c)

-----------------------------------------------------------------------------
(* clone_run_formatting and clone_paragraph_formatting                     *)
(*                                                                         *)
(* A statement is [name, block, guarded]: the property it copies, the inner *)
(* try block it stands in (0: only the try of the whole function), and      *)
(* whether it is under 'if source.<name> is not None'.                      *)

Stmt(name, block, guarded) == [name |-> name, block |-> block, guarded |-> guarded]

\* clone_run_formatting, lines 21-76
RunStatements ==
    << Stmt("font.name", 0, TRUE), Stmt("font.size", 0, TRUE),
       Stmt("font.color", 1, TRUE),
       Stmt("bold", 0, FALSE), Stmt("italic", 0, FALSE), Stmt("underline", 0, FALSE),
       Stmt("font.all_caps", 2, FALSE), Stmt("font.small_caps", 2, FALSE),
       Stmt("font.strike", 2, FALSE), Stmt("font.double_strike", 2, FALSE),
       Stmt("font.outline", 2, FALSE), Stmt("font.shadow", 2, FALSE),
       Stmt("font.emboss", 2, FALSE), Stmt("font.imprint", 2, FALSE),
       Stmt("font.superscript", 3, FALSE), Stmt("font.subscript", 3, FALSE),
       Stmt("font.highlight_color", 4, TRUE),
       Stmt("font.spacing", 5, TRUE),
       Stmt("style", 0, TRUE) >>

\* clone_paragraph_formatting, lines 93-131
ParagraphStatements ==
    << Stmt("alignment", 0, TRUE),
       Stmt("left_indent", 0, TRUE), Stmt("right_indent", 0, TRUE),
       Stmt("first_line_indent", 0, TRUE),
       Stmt("space_before", 0, TRUE), Stmt("space_after", 0, TRUE),
       Stmt("line_spacing", 0, TRUE), Stmt("line_spacing_rule", 0, TRUE),
       Stmt("keep_together", 0, TRUE), Stmt("keep_with_next", 0, TRUE),
       Stmt("page_break_before", 0, TRUE), Stmt("widow_control", 0, TRUE),
       Stmt("style", 0, TRUE) >>

ExceptionClasses == {"AttributeError", "ValueError"}

\* the handler of an inner try block: 'except Exception' around the colour
\* (line 31), 'except AttributeError' around the others (lines 49, 56, 63, 70)
Catches(block, exc) ==
    IF block = 1 THEN TRUE ELSE exc = "AttributeError"

\* the first statement after the try block of statement k
AfterBlock(props, k) ==
    IF \E j \in (k + 1)..Len(props) : props[j].block # props[k].block
    THEN CHOOSE j \in (k + 1)..Len(props) :
            /\ props[j].block # props[k].block
            /\ \A i \in (k + 1)..(j - 1) : props[i].block = props[k].block
    ELSE Len(props) + 1

\* a source with every property set, and one with the direct formatting of
\* a bold run only
SourcesOf(props) ==
    { [k \in 1..Len(props) |-> TRUE],
      [k \in 1..Len(props) |-> props[k].name = "bold"] }

CloneInit ==
    /\ cl_pc = "cloning"
    /\ cl_props \in {RunStatements, ParagraphStatements}
    /\ cl_source \in SourcesOf(cl_props)
    /\ cl_fail \in 0..Len(cl_props)
    /\ cl_exc \in IF cl_fail = 0 THEN {NoneStr} ELSE ExceptionClasses
    /\ cl_pos = 1
    /\ cl_target = {}
    /\ cl_logged = FALSE

\* one statement copies its property: a guarded one only when the source has
\* a value, the others always (None means inherit)
CloneProperty ==
    /\ cl_pc = "cloning"
    /\ cl_pos <= Len(cl_props)
    /\ cl_pos # cl_fail
    /\ cl_target' = IF cl_props[cl_pos].guarded /\ ~cl_source[cl_pos]
                    THEN cl_target ELSE cl_target \cup {cl_pos}
    /\ cl_pos' = cl_pos + 1
    /\ UNCHANGED <<cl_pc, cl_props, cl_source, cl_fail, cl_exc, cl_logged>>
    /\ UNCHANGED notCl

\* the read or the write of the property raises inside an inner try block
\* whose handler takes the exception: the rest of the block is passed over
PropertyRaisesInBlock ==
    /\ cl_pc = "cloning"
    /\ cl_pos = cl_fail
    /\ cl_props[cl_pos].block # 0
    /\ Catches(cl_props[cl_pos].block, cl_exc)
    /\ cl_pos' = AfterBlock(cl_props, cl_pos)
    /\ UNCHANGED <<cl_pc, cl_props, cl_source, cl_fail, cl_exc, cl_target, cl_logged>>
    /\ UNCHANGED notCl

\* the exception reaches 'except Exception as e' of the function (lines 81-82
\* and 133-134): the warning is logged and the function returns
PropertyRaises ==
    /\ cl_pc = "cloning"
    /\ cl_pos = cl_fail
    /\ \/ cl_props[cl_pos].block = 0
       \/ ~Catches(cl_props[cl_pos].block, cl_exc)
    /\ cl_logged' = TRUE
    /\ cl_pc' = "returned"
    /\ UNCHANGED <<cl_props, cl_source, cl_fail, cl_exc, cl_pos, cl_target>>
    /\ UNCHANGED notCl

\* the last statement is done
CloneReturns ==
    /\ cl_pc = "cloning"
    /\ cl_pos = Len(cl_props) + 1
    /\ cl_pc' = "returned"
    /\ UNCHANGED <<cl_props, cl_source, cl_fail, cl_exc, cl_pos, cl_target, cl_logged>>
    /\ UNCHANGED notCl

-----------------------------------------------------------------------------
(* Specifications *)

BatchSpecInit == BatchInit /\ RunsIdle /\ DocIdle /\ CacheIdle /\ OrchIdle /\ KeysIdle /\ CachedIdle /\ TraversalIdle /\ SpecialIdle /\ PersistIdle /\ SerialIdle /\ CloneIdle

BatchNext == OptimizeBatchesCall \/ PlanBatchesCall

SpecBatch == BatchSpecInit /\ [][BatchNext]_vars

RunsSpecInit == RunsInit /\ BatchIdle /\ DocIdle /\ CacheIdle /\ OrchIdle /\ KeysIdle /\ CachedIdle /\ TraversalIdle /\ SpecialIdle /\ PersistIdle /\ SerialIdle /\ CloneIdle

RunsNext == ApplyTranslatedTextCall

SpecRuns == RunsSpecInit /\ [][RunsNext]_vars

DocSpecInit == DocInit /\ BatchIdle /\ RunsIdle /\ CacheIdle /\ OrchIdle /\ KeysIdle /\ CachedIdle /\ TraversalIdle /\ SpecialIdle /\ PersistIdle /\ SerialIdle /\ CloneIdle

DocNext ==
    \/ CollectContexts
    \/ SkipBlankParagraph
    \/ TranslateParagraph
    \/ TranslateRaises
    \/ SaveDocument

SpecDoc == DocSpecInit /\ [][DocNext]_vars

CacheSpecInit == CacheInit /\ BatchIdle /\ RunsIdle /\ DocIdle /\ OrchIdle /\ KeysIdle /\ CachedIdle /\ TraversalIdle /\ SpecialIdle /\ PersistIdle /\ SerialIdle /\ CloneIdle

CacheNext == CacheGet \/ CacheSet \/ CacheTick

SpecCache == CacheSpecInit /\ [][CacheNext]_vars

OrchSpecInit == OrchInit /\ BatchIdle /\ RunsIdle /\ DocIdle /\ CacheIdle /\ KeysIdle /\ CachedIdle /\ TraversalIdle /\ SpecialIdle /\ PersistIdle /\ SerialIdle /\ CloneIdle

Batches == 1..Len(ax_batches)

OrchNext ==
    \/ MainStart
    \/ \E b \in Batches : Dispatch(b)
    \/ \E b \in Batches : EnterCall(b)
    \/ \E b \in Batches : SingleReturns(b)
    \/ \E b \in Batches : SingleRaises(b)
    \/ \E b \in Batches : BatchReturns(b)
    \/ \E b \in Batches : BatchReturnsShort(b)
    \/ \E b \in Batches : BatchReturnsNoList(b)
    \/ \E b \in Batches : BatchRaises(b)
    \/ \E b \in Batches : \E j \in 1..Len(ax_batches[b]) : SubEnterCall(b, j)
    \/ \E b \in Batches : \E j \in 1..Len(ax_batches[b]) : SubLeaveCall(b, j, "ok")
    \/ \E b \in Batches : \E j \in 1..Len(ax_batches[b]) : SubLeaveCall(b, j, "err")
    \/ \E b \in Batches : FallbackGathered(b)
    \/ MainWake

SpecOrch == OrchSpecInit /\ [][OrchNext]_vars

\* Every step but the first: the coroutines and the wake-ups of the main loop.
OrchRun ==
    \/ \E b \in Batches : Dispatch(b)
    \/ \E b \in Batches : EnterCall(b)
    \/ \E b \in Batches : SingleReturns(b)
    \/ \E b \in Batches : SingleRaises(b)
    \/ \E b \in Batches : BatchReturns(b)
    \/ \E b \in Batches : BatchReturnsShort(b)
    \/ \E b \in Batches : BatchReturnsNoList(b)
    \/ \E b \in Batches : BatchRaises(b)
    \/ \E b \in Batches : \E j \in 1..Len(ax_batches[b]) : SubEnterCall(b, j)
    \/ \E b \in Batches : \E j \in 1..Len(ax_batches[b]) : SubLeaveCall(b, j, "ok")
    \/ \E b \in Batches : \E j \in 1..Len(ax_batches[b]) : SubLeaveCall(b, j, "err")
    \/ \E b \in Batches : FallbackGathered(b)
    \/ MainWake

\* The step that leaves "start": under OrchNext it is MainStart.
LeaveStart == ax_main = "start" /\ ax_main' \in {"waiting", "done"}

\* The function is called, the event loop runs every coroutine that can
\* run, and every translator call returns or raises.
SpecOrchFair ==
    OrchSpecInit /\ [][OrchNext]_vars /\ WF_ax_main(LeaveStart) /\ WF_vars(OrchRun)

KeysSpecInit == KeysInit /\ BatchIdle /\ RunsIdle /\ DocIdle /\ CacheIdle /\ OrchIdle /\ CachedIdle /\ TraversalIdle /\ SpecialIdle /\ PersistIdle /\ SerialIdle /\ CloneIdle

KeysNext == MakeKeys

SpecKeys == KeysSpecInit /\ [][KeysNext]_vars

\* a day passes between the construction of the cache and the calls
CachedDayPasses ==
    /\ ct_calls = <<>>
    /\ tc_now < MaxClock
    /\ tc_now' = tc_now + 1
    /\ UNCHANGED <<tc_cfg, tc_cache, tc_stats, tc_last, ct_calls>>
    /\ UNCHANGED notCtTc

CachedSpecInit ==
    CachedInit /\ BatchIdle /\ RunsIdle /\ DocIdle /\ OrchIdle /\ KeysIdle
        /\ TraversalIdle /\ SpecialIdle /\ PersistIdle /\ SerialIdle /\ CloneIdle

CachedNext ==
    \/ TranslateText
    \/ TranslateBatch
    \/ TranslateTextAsync
    \/ TranslateBatchAsync
    \/ AsyncResume
    \/ CachedDayPasses

SpecCached == CachedSpecInit /\ [][CachedNext]_vars

TraversalSpecInit ==
    TraversalInit /\ BatchIdle /\ RunsIdle /\ DocIdle /\ CacheIdle /\ OrchIdle
        /\ KeysIdle /\ CachedIdle /\ SpecialIdle /\ PersistIdle /\ SerialIdle /\ CloneIdle

TraversalNext ==
    \/ Collect
    \/ TranslateContext
    \/ FinishSync
    \/ CreateTranslationTasks
    \/ ExecuteTranslationTasks

SpecTraversal == TraversalSpecInit /\ [][TraversalNext]_vars

SpecialSpecInit ==
    SpecialInit /\ BatchIdle /\ RunsIdle /\ DocIdle /\ CacheIdle /\ OrchIdle
        /\ KeysIdle /\ CachedIdle /\ TraversalIdle /\ PersistIdle /\ SerialIdle /\ CloneIdle

SpecialNext ==
    \/ Protect
    \/ Restore

SpecSpecial == SpecialSpecInit /\ [][SpecialNext]_vars

PersistSpecInit ==
    PersistInit /\ BatchIdle /\ RunsIdle /\ DocIdle /\ CacheIdle /\ OrchIdle
        /\ KeysIdle /\ CachedIdle /\ TraversalIdle /\ SpecialIdle /\ SerialIdle /\ CloneIdle

PersistNext ==
    \/ SaveDisabled
    \/ SaveOpen
    \/ SaveWrite
    \/ SaveWriteFails
    \/ SaveReplace
    \/ SaveCrash
    \/ PersistDayPasses
    \/ LoadAgain

SpecPersist == PersistSpecInit /\ [][PersistNext]_vars

SerialSpecInit ==
    SerialInit /\ BatchIdle /\ RunsIdle /\ DocIdle /\ CacheIdle /\ OrchIdle
        /\ KeysIdle /\ CachedIdle /\ TraversalIdle /\ SpecialIdle /\ PersistIdle /\ CloneIdle

SerialNext ==
    \/ BeginSomeCall
    \/ GetBeginSome
    \/ GetEndSome
    \/ CallClientSome
    \/ ClientReturnsSome
    \/ ResumeSomeCall
    \/ SetBeginSome
    \/ SetEndSome
    \/ ThreadDoneSome
    \/ EndSomeCall

SpecSerial == SerialSpecInit /\ [][SerialNext]_vars

CloneSpecInit ==
    CloneInit /\ BatchIdle /\ RunsIdle /\ DocIdle /\ CacheIdle /\ OrchIdle
        /\ KeysIdle /\ CachedIdle /\ TraversalIdle /\ SpecialIdle /\ PersistIdle
        /\ SerialIdle

CloneNext ==
    \/ CloneProperty
    \/ PropertyRaisesInBlock
    \/ PropertyRaises
    \/ CloneReturns

SpecClone == CloneSpecInit /\ [][CloneNext]_vars

-----------------------------------------------------------------------------
(* Claims about the batch planner *)

BatchCharSum(batch) == BatchChars(bo_texts, batch)

Oversized(batch) ==
    Len(batch) = 1 /\ Len(bo_texts[batch[1] + 1]) > bo_cfg.max_chars_per_batch

\* C4: every batch returned by optimize_batches is non-empty and has at most
\* max_batch_size items and at most max_chars_per_batch characters, except a
\* batch of exactly one text that is itself longer than max_chars_per_batch.
C4_BatchLimits ==
    bo_pc = "optimized" =>
        \A b \in 1..Len(bo_batches) :
            /\ bo_batches[b] # <<>>
            /\ \/ Oversized(bo_batches[b])
               \/ /\ Len(bo_batches[b]) <= bo_cfg.max_batch_size
                  /\ BatchCharSum(bo_batches[b]) <= bo_cfg.max_chars_per_batch

C4_Witness ==
    /\ bo_pc = "optimized"
    /\ \E b \in 1..Len(bo_batches) : Oversized(bo_batches[b])
    /\ \E b \in 1..Len(bo_batches) :
          /\ Len(bo_batches[b]) = bo_cfg.max_batch_size
          /\ Len(bo_batches[b]) > 1
          /\ BatchCharSum(bo_batches[b]) = bo_cfg.max_chars_per_batch

\* C5: the batches returned by optimize_batches partition the input indices:
\* every index 0..n-1 occurs in exactly one batch, exactly once, and no other
\* index occurs, with or without context grouping.
C5_ExactPartition ==
    bo_pc = "optimized" =>
        LET flat == Flatten(bo_batches)
        IN  /\ Len(flat) = Len(bo_texts)
            /\ Range(flat) = 0..(Len(bo_texts) - 1)

C5_Witness ==
    /\ bo_pc = "optimized"
    /\ bo_cfg.enable_context_grouping
    /\ Len(bo_batches) >= 2
    /\ \E b \in 1..Len(bo_batches) :
          Len(bo_batches[b]) = 2 /\ bo_batches[b][2] > bo_batches[b][1] + 1

Ascending(batch) == \A j \in 1..(Len(batch) - 1) : batch[j] < batch[j + 1]

\* C6: in the list produced by _plan_batches the tasks of every batch are in
\* ascending sequence index, and the largest-first sort only reorders whole
\* batches: the planned batches are exactly the batches of optimize_batches.
C6_PlanKeepsBatchContent ==
    bo_pc = "planned" =>
        LET unsorted == OptimizeBatches(bo_texts, bo_contexts,
                                        [bo_cfg EXCEPT !.enable_context_grouping = TRUE])
        IN  /\ \A b \in 1..Len(bo_batches) : Ascending(bo_batches[b])
            /\ Len(bo_batches) = Len(unsorted)
            /\ Range(bo_batches) = Range(unsorted)

C6_Witness ==
    /\ bo_pc = "planned"
    /\ Len(bo_batches) >= 2
    /\ \E b \in 1..Len(bo_batches) : Len(bo_batches[b]) >= 2
    /\ bo_batches # OptimizeBatches(bo_texts, bo_contexts,
                                    [bo_cfg EXCEPT !.enable_context_grouping = TRUE])

-----------------------------------------------------------------------------
(* Claims about run reconstruction *)

\* C7: for a paragraph with N >= 0 runs and any translated string S, the
\* runs of the translation paragraph produced by _apply_translated_text,
\* concatenated in order, equal S.
C7_RunsConcatEqualsS ==
    rr_pc = "applied" => TextOfRuns(rr_out) = rr_S

\* The same for paragraphs that have at least one run.
RunsConcatEqualsSWhenRunsExist ==
    (rr_pc = "applied" /\ RunTexts(rr_para) # <<>>) => TextOfRuns(rr_out) = rr_S

-----------------------------------------------------------------------------
(* Claims about translate_document *)

AllNonBlank(body) == \A k \in 1..Len(body) : ~IsBlank(ParagraphText(body[k]))

\* C8: after translate_document has processed a container of k non-empty
\* paragraphs with translator T, the container holds 2k paragraphs: position
\* 2i is the original p_i, unchanged, and position 2i+1 is its twin with text
\* T(p_i).
C8_TwinsAlternate ==
    (dc_pc = "saved" /\ AllNonBlank(dc_orig)) =>
        /\ Len(dc_body) = 2 * Len(dc_orig)
        /\ \A i \in 1..Len(dc_orig) :
              /\ dc_body[2 * i - 1] = dc_orig[i]
              /\ dc_body[2 * i].twin_of = dc_orig[i].id
              /\ ParagraphText(dc_body[2 * i]) = Translate(dc_T, ParagraphText(dc_orig[i]))

HasRuns(para) == RunTexts(para) # <<>>

\* The same for containers whose paragraphs all have at least one run.
TwinsAlternateWhenRunsExist ==
    (dc_pc = "saved" /\ AllNonBlank(dc_orig) /\ \A k \in 1..Len(dc_orig) : HasRuns(dc_orig[k])) =>
        /\ Len(dc_body) = 2 * Len(dc_orig)
        /\ \A i \in 1..Len(dc_orig) :
              /\ dc_body[2 * i - 1] = dc_orig[i]
              /\ dc_body[2 * i].twin_of = dc_orig[i].id
              /\ ParagraphText(dc_body[2 * i]) = Translate(dc_T, ParagraphText(dc_orig[i]))

-----------------------------------------------------------------------------
(* Claims about the translation cache *)

\* a get or a set is taken in this step
CacheCallStep == CacheOps' = CacheOps + 1

StoredTranslation(cache, key) == cache[KeyIndex(cache, key)].translation

\* the entry of key exists and is not older than the expiry period
LiveEntry(cache, key, now) ==
    /\ KeyIndex(cache, key) # 0
    /\ now - cache[KeyIndex(cache, key)].timestamp <= tc_cfg.expiry_days

\* C10: right after set(text, v, src, tgt, ctx) the cache holds v under the
\* request's key, and a get of a key whose entry is present and not expired
\* returns the stored translation and leaves it stored unchanged: so a get
\* right after the set returns v, and so does every further get.
C10_SetThenGet ==
    [][CacheCallStep =>
          /\ tc_last'.op = "set" =>
                /\ KeyIndex(tc_cache', KeyOf(tc_last'.req)) # 0
                /\ StoredTranslation(tc_cache', KeyOf(tc_last'.req)) = tc_last'.translation
          /\ (tc_last'.op = "get" /\ LiveEntry(tc_cache, KeyOf(tc_last'.req), tc_now)) =>
                /\ tc_last'.ret = StoredTranslation(tc_cache, KeyOf(tc_last'.req))
                /\ Len(tc_cache') = Len(tc_cache)
                /\ \A k \in 1..Len(tc_cache) :
                      /\ tc_cache'[k].key = tc_cache[k].key
                      /\ tc_cache'[k].translation = tc_cache[k].translation
                      /\ tc_cache'[k].timestamp = tc_cache[k].timestamp]_vars

\* a second get in a row has returned the value that was set
C10_Witness ==
    /\ tc_last.op = "get"
    /\ tc_last.ret \in Translations
    /\ tc_stats.saves = 1
    /\ tc_stats.hits = 2


-----------------------------------------------------------------------------
(* AsyncDocumentProcessor._execute_translation_tasks *)

\* C1: whatever order the batches complete in, _apply_translated_text is
\* called on the tasks in strictly increasing index order: the k-th call is
\* for task index k-1, and next_index_to_apply counts the calls made.
C1_AppliedInIndexOrder ==
    /\ Len(ax_applied) = ax_next
    /\ \A k \in 1..Len(ax_applied) : ax_applied[k] = k - 1

\* task 0 is applied, a later task completed before its predecessor and is
\* held in ready_tasks
C1_Witness ==
    /\ ax_main = "waiting"
    /\ Len(ax_applied) >= 1
    /\ ax_ready # {}
    /\ ax_next \notin ax_ready

AllApplied ==
    /\ ax_next = Len(ax_tasks)
    /\ \A i \in 1..Len(ax_tasks) : ax_result[i] # None
    /\ \A i \in 0..(Len(ax_tasks) - 1) :
          Cardinality({k \in 1..Len(ax_applied) : ax_applied[k] = i}) = 1

\* C2: with every translator call returning or raising,
\* _execute_translation_tasks terminates, and when it has every task has a
\* result and has been applied exactly once (next_index_to_apply is the
\* number of tasks).
C2_TerminatesAllApplied ==
    /\ <>(ax_main = "done")
    /\ [](ax_main = "done" => AllApplied)

C2_Witness ==
    /\ ax_main = "done"
    /\ Len(ax_tasks) = MaxTasks
    /\ AllApplied
    /\ \E b \in 1..Len(ax_batches) : ax_co[b].raised

\* C3: when the batch request for N > 1 texts raised, translate_batch_async
\* has made exactly one single-item call per text and returns N entries,
\* entry i the translation of text i or, where that call failed, text i.
C3_FallbackPerText ==
    \A b \in 1..Len(ax_batches) :
        (ax_co[b].raised /\ ax_co[b].pc = "finished") =>
            LET texts == BatchTexts(ax_batches[b])
            IN  /\ Len(texts) > 1
                /\ Len(ax_co[b].wret) = Len(texts)
                /\ \A j \in 1..Len(texts) :
                      /\ ax_calls[ax_batches[b][j] + 1] = 1
                      /\ ax_co[b].wret[j] = IF ax_co[b].subs[j] = "ok"
                                            THEN Tr(texts[j]) ELSE texts[j]

\* a raised batch whose fallback translated one text and failed on another
C3_Witness ==
    \E b \in 1..Len(ax_batches) :
        /\ ax_co[b].raised /\ ax_co[b].pc = "finished"
        /\ \E j, k \in 1..Len(ax_batches[b]) :
              ax_co[b].subs[j] = "ok" /\ ax_co[b].subs[k] = "err"

\* C9: every batch is submitted before any is awaited (once
\* _execute_translation_tasks waits, each batch has its coroutine, pending
\* or finished), and yet the calls of the underlying translator in flight
\* never exceed max_concurrent.
C9_SubmittedAllBoundedInFlight ==
    /\ ax_main # "start" =>
          /\ Len(ax_co) = Len(ax_batches)
          /\ \A b \in 1..Len(ax_batches) : b \in ax_pending \/ ax_co[b].pc = "finished"
    /\ ax_inflight <= ax_cfg.max_concurrent

\* more coroutines want the translator than max_concurrent admits
C9_Witness ==
    /\ ax_inflight = ax_cfg.max_concurrent
    /\ Len(ax_batches) > ax_cfg.max_concurrent
    /\ Cardinality({b \in 1..Len(ax_batches) : ax_co[b].pc = "want"}) >= 1
    /\ ax_pending = 1..Len(ax_batches)


-----------------------------------------------------------------------------
(* TranslationCache: capacity, eviction, expiry *)

\* C11: in every reachable state, after construction (with or without a
\* snapshot) and after any gets and sets, the cache holds at most
\* max_entries entries.
C11_AtMostMaxEntries == Len(tc_cache) <= tc_cfg.max_entries

CacheKeys(cache) == {cache[k].key : k \in 1..Len(cache)}

\* (hits, last_access) of e1 is not above that of e2
LowestTuple(e1, e2) ==
    e1.hits < e2.hits \/ (e1.hits = e2.hits /\ e1.last_access <= e2.last_access)

\* C12: a set of a key that is absent from a cache holding max_entries
\* entries removes exactly one entry, one whose (hits, last_access) is lowest
\* among the entries held before; a set of a key that is present removes none.
C12_EvictsLowestTuple ==
    [][(CacheCallStep /\ tc_last'.op = "set") =>
          LET key == KeyOf(tc_last'.req)
          IN  /\ KeyIndex(tc_cache, key) # 0 => CacheKeys(tc_cache') = CacheKeys(tc_cache)
              /\ (KeyIndex(tc_cache, key) = 0 /\ Len(tc_cache) = tc_cfg.max_entries) =>
                    \E k \in 1..Len(tc_cache) :
                        /\ CacheKeys(tc_cache') = (CacheKeys(tc_cache) \ {tc_cache[k].key}) \cup {key}
                        /\ Len(tc_cache') = Len(tc_cache)
                        /\ \A j \in 1..Len(tc_cache) : LowestTuple(tc_cache[k], tc_cache[j])]_vars

\* a full cache of two entries, where the entry accessed longest ago has the
\* more hits, has taken a new key: the entry with fewer hits is gone
C12_Witness ==
    /\ tc_last.op = "set"
    /\ tc_cfg.max_entries = 2
    /\ tc_stats.evictions = 1
    /\ tc_stats.saves = 1
    /\ Len(tc_cache) = 2
    /\ tc_cache[1].hits >= 1

\* C13: a get of a key whose entry is older than the expiry period returns
\* a miss and removes the entry, a get of an absent key is a miss and leaves
\* it absent, and an entry not older than the expiry period is a hit.
C13_ExpiredIsMissAndRemoved ==
    [][(CacheCallStep /\ tc_last'.op = "get") =>
          LET key == KeyOf(tc_last'.req)
              k == KeyIndex(tc_cache, key)
          IN  /\ (k # 0 /\ tc_now - tc_cache[k].timestamp > tc_cfg.expiry_days) =>
                    tc_last'.ret = None /\ KeyIndex(tc_cache', key) = 0
              /\ k = 0 => tc_last'.ret = None /\ KeyIndex(tc_cache', key) = 0
              /\ (k # 0 /\ tc_now - tc_cache[k].timestamp <= tc_cfg.expiry_days) =>
                    tc_last'.ret = tc_cache[k].translation /\ KeyIndex(tc_cache', key) # 0]_vars

\* a loaded entry grew too old, a get removed it, and the get after missed
C13_Witness ==
    /\ tc_last.op = "get"
    /\ tc_last.ret = None
    /\ tc_stats.saves = 0
    /\ tc_stats.evictions = 1
    /\ tc_stats.misses = 2
    /\ tc_stats.hits = 0
    /\ KeyIndex(tc_cache, KeyOf(tc_last.req)) = 0
    /\ KeyOf(tc_last.req) = KeyOf(Req(<<"a">>, None))

-----------------------------------------------------------------------------
(* TranslationCache._make_cache_key *)

\* trim and case-fold of a text
TrimFold(text) == Lower(Strip(text))

SameRequest(r1, r2) ==
    /\ TrimFold(r1.text) = TrimFold(r2.text)
    /\ r1.source_lang = r2.source_lang
    /\ r1.target_lang = r2.target_lang
    /\ r1.context = r2.context

\* C14: two requests address the same entry if and only if their texts are
\* equal after trim and case-fold and their source language, target language
\* and context are equal.
C14_SameEntryIffSameRequest ==
    ck_pc = "made" => ((ck_k1 = ck_k2) <=> SameRequest(ck_r1, ck_r2))

HasSeparator(seq) == seq # None /\ \E i \in 1..Len(seq) : seq[i] = "|"

\* For requests with a non-empty context or none, and no separator in text
\* or context, the equivalence holds.
SameEntryIffSameRequestWithoutSeparator ==
    (/\ ck_pc = "made"
     /\ \A r \in {ck_r1, ck_r2} :
           r.context # <<>> /\ ~HasSeparator(r.text) /\ ~HasSeparator(r.context))
    => ((ck_k1 = ck_k2) <=> SameRequest(ck_r1, ck_r2))

\* Requests alike after trim and case-fold always share their entry.
SameRequestSameEntry ==
    (ck_pc = "made" /\ SameRequest(ck_r1, ck_r2)) => ck_k1 = ck_k2

\* Two requests whose texts differ after trim and case-fold share an entry
\* (a state the key computation reaches through the separator).
SeparatorCollision ==
    /\ ck_pc = "made"
    /\ ck_k1 = ck_k2
    /\ TrimFold(ck_r1.text) # TrimFold(ck_r2.text)

-----------------------------------------------------------------------------
(* CachedTranslator *)

KeyOfText(text) == KeyOf(Req(text, None))

\* the entry of a text is present and not expired in the cache a call found
LiveAt(call, text) ==
    /\ KeyIndex(call.before, KeyOfText(text)) # 0
    /\ call.now - call.before[KeyIndex(call.before, KeyOfText(text))].timestamp
          <= tc_cfg.expiry_days

Completed(call) == call.pc = "done" /\ ~call.raised

\* C15: translate_text and translate_text_async make no call of the
\* underlying translator and return the cached value when the cache holds
\* an unexpired entry for the request; on a miss they make exactly one call
\* and pass its result to the cache, which holds it with the time of the
\* store once the call returned: a second identical request is then a hit.
C15_TextCallsOnlyOnMiss ==
    /\ \A c \in 1..Len(ct_calls) :
          LET call == ct_calls[c]
              text == call.texts[1]
          IN  call.kind = "text" =>
                IF LiveAt(call, text)
                THEN /\ call.sent = <<>>
                     /\ call.pc = "done"
                     /\ call.ret = <<StoredTranslation(call.before, KeyOfText(text))>>
                ELSE /\ call.sent = << <<text>> >>
                     /\ Completed(call) =>
                           /\ call.ret = <<Tr(text)>>
                           /\ call.stored = <<[text |-> text, translation |-> Tr(text)]>>
    /\ (tc_last.op = "set" /\ ct_calls # <<>>) =>
          /\ KeyIndex(tc_cache, KeyOf(tc_last.req)) # 0
          /\ StoredTranslation(tc_cache, KeyOf(tc_last.req)) = tc_last.translation
          /\ tc_cache[KeyIndex(tc_cache, KeyOf(tc_last.req))].timestamp
                >= ct_calls[Len(ct_calls)].now

\* a text missed, was translated and stored, and the same text asked again
\* was answered from the cache without a call
C15_Witness ==
    /\ Len(ct_calls) = 2
    /\ ct_calls[1].kind = "text" /\ ct_calls[2].kind = "text"
    /\ ct_calls[1].texts = ct_calls[2].texts
    /\ ct_calls[1].mode = "async" /\ ct_calls[2].mode = "sync"
    /\ Completed(ct_calls[1]) /\ ct_calls[1].sent # <<>>
    /\ Completed(ct_calls[2]) /\ ct_calls[2].sent = <<>>
    /\ ct_calls[2].ret = <<Tr(ct_calls[1].texts[1])>>

\* the positions of a call's texts that missed, in input order
Misses(call) ==
    SelectSeq([i \in 1..Len(call.texts) |-> i], LAMBDA i : ~LiveAt(call, call.texts[i]))

-----------------------------------------------------------------------------
(* collect_document_contexts and the pipelines *)

\* the containers reached from the body and from the header/footer parts
\* of slots that are not linked to previous, through tables and their cells
BlocksOf(doc, c) == IF c \in DOMAIN doc.children THEN Range(doc.children[c]) ELSE {}

RECURSIVE ReachedFrom(_, _)
ReachedFrom(doc, containers) ==
    LET cells == UNION { UNION {Range(doc.grid[t][r]) : r \in 1..Len(doc.grid[t])} :
                         t \in {node \in UNION {BlocksOf(doc, c) : c \in containers} :
                                   IsTable(node)} }
    IN  IF cells \subseteq containers THEN containers
        ELSE ReachedFrom(doc, containers \cup cells)

ReachableParagraphs(doc) ==
    LET roots == {Body} \cup
                 {slot.part : slot \in {slot \in UNION {Range(doc.sections[s]) :
                                                           s \in 1..Len(doc.sections)} :
                                            ~slot.linked}}
    IN  {node \in UNION {BlocksOf(doc, c) : c \in ReachedFrom(doc, roots)} :
            IsParagraph(node)}

Collected == tv_pc \in {"collected", "tasks", "done"}

\* C17: collect_document_contexts returns exactly one context per paragraph
\* reachable from the body or from a header/footer not linked to previous:
\* no paragraph twice, none missing.
C17_OneContextPerParagraph ==
    Collected =>
        /\ \A i, j \in 1..Len(tv_contexts) :
              tv_contexts[i].paragraph = tv_contexts[j].paragraph => i = j
        /\ {tv_contexts[i].paragraph : i \in 1..Len(tv_contexts)}
              = ReachableParagraphs(tv_orig)

\* the document whose header part is named by two sections and whose tables
\* have merged cells is collected
C17_Witness ==
    /\ Collected
    /\ tv_orig = DocNested
    /\ Len(tv_contexts) = 7

\* the cells of a table that stand at more than one coordinate
MergedCells(doc, t) ==
    {cell \in UNION {Range(doc.grid[t][r]) : r \in 1..Len(doc.grid[t])} :
        Cardinality({rc \in (1..Len(doc.grid[t])) \X (1..Len(doc.grid[t][1])) :
                        doc.grid[t][rc[1]][rc[2]] = cell}) > 1}

\* C18: a merged cell is visited once; after translation a merged cell that
\* held one paragraph (with text) holds exactly two, the original and its
\* translation, and the table's rows and columns are as before.
C18_MergedCellTranslatedOnce ==
    tv_pc = "done" =>
        /\ tv_doc.grid = tv_orig.grid
        /\ \A t \in DOMAIN tv_orig.grid : \A cell \in MergedCells(tv_orig, t) :
              LET held == tv_orig.children[cell]
              IN  (Len(held) = 1 /\ IsParagraph(held[1])
                   /\ ~IsBlank(TextOfParagraph(held[1])))
                  => tv_doc.children[cell] = <<held[1], TwinOf(held[1])>>

HasDirectRun(pid) == tv_kind[pid[2]] # "link"

\* A merged cell whose one paragraph has at least one run holds two
\* paragraphs after translation.
MergedCellTranslatedOnceWhenRunsExist ==
    tv_pc = "done" =>
        /\ tv_doc.grid = tv_orig.grid
        /\ \A t \in DOMAIN tv_orig.grid : \A cell \in MergedCells(tv_orig, t) :
              LET held == tv_orig.children[cell]
              IN  (Len(held) = 1 /\ IsParagraph(held[1])
                   /\ ~IsBlank(TextOfParagraph(held[1])) /\ HasDirectRun(held[1]))
                  => tv_doc.children[cell] = <<held[1], TwinOf(held[1])>>

\* C19: a paragraph whose text is empty or white space only stays in the
\* traversal result, is in no translator call (single or batch), and gets
\* no translation paragraph, in the synchronous and the asynchronous
\* pipeline.
C19_BlankNeverSent ==
    /\ Collected =>
          \A pid \in ReachableParagraphs(tv_orig) :
              IsBlank(TextOfParagraph(pid)) =>
                  \E i \in 1..Len(tv_contexts) : tv_contexts[i].paragraph = pid
    /\ \A k \in 1..Len(tv_sent) : \A j \in 1..Len(tv_sent[k]) : ~IsBlank(tv_sent[k][j])
    /\ tv_pc # "idle" =>
          \A pid \in ParagraphsOf(tv_orig) :
              IsBlank(TextOfParagraph(pid)) => TwinOf(pid) \notin ParagraphsOf(tv_doc)

\* the asynchronous pipeline ran over a document with an empty and a
\* white-space paragraph, and sent the others in a batch
C19_Witness ==
    /\ tv_pc = "done" /\ tv_mode = "async"
    /\ \E p, q \in ParagraphsOf(tv_orig) :
          TextOfParagraph(p) = <<>> /\ TextOfParagraph(q) = <<" ">>
    /\ \E k \in 1..Len(tv_sent) : Len(tv_sent[k]) > 1

-----------------------------------------------------------------------------
(* protect_special_characters / restore_special_characters *)

MappedChars == {SPECIAL_CHARS[k][1] : k \in 1..Len(SPECIAL_CHARS)}

Placeholders == {SPECIAL_CHARS[k][2] : k \in 1..Len(SPECIAL_CHARS)}

Occurs(old, text) ==
    \E i \in 1..Len(text) : StartsWith(SubSeq(text, i, Len(text)), old)

\* C20: for any text containing tabs, non-breaking spaces, zero-width spaces
\* or the other mapped characters,
\* restore_special_characters(protect_special_characters(text)) = text.
C20_RoundTrip ==
    (sc_pc = "restored" /\ Range(sc_text) \cap MappedChars # {})
        => sc_restored = sc_text

\* The round trip gives the text back when the text holds no placeholder
\* string of its own.
RoundTripWithoutLiteralPlaceholder ==
    (sc_pc = "restored" /\ \A ph \in Placeholders : ~Occurs(ph, sc_text))
        => sc_restored = sc_text

\* a text with a tab, a non-breaking space and a zero-width space made the
\* round trip, through placeholders
RoundTripOfMappedChars ==
    /\ sc_pc = "restored"
    /\ {TAB, NBSP, ZWSP} \subseteq Range(sc_text)
    /\ sc_protected # sc_text
    /\ sc_restored = sc_text

-----------------------------------------------------------------------------
(* _execute_translation_tasks: failures, writes and the low-water mark *)

\* the batches whose batch request returned a list of another length
ReturnedOtherLength ==
    {b \in 1..Len(ax_batches) :
        /\ ax_co[b].pc = "finished" /\ ~IsSingle(b)
        /\ ~ax_co[b].raised /\ ~ax_co[b].exc /\ ax_cfg.has_batch
        /\ Len(ax_co[b].wret) # Len(ax_batches[b])}

\* C21: when the batch call returns a list whose length differs from the
\* number of texts sent, the batch is recovered through the fallback path:
\* one single-item translation per text of that batch.
C21_LengthMismatchFallsBack ==
    \A b \in ReturnedOtherLength :
        \A j \in 1..Len(ax_batches[b]) : ax_calls[ax_batches[b][j] + 1] >= 1

\* What the code does on a length mismatch: no further call, and every task
\* of the batch gets its own text as result.
LengthMismatchGivesOriginals ==
    \A b \in ReturnedOtherLength :
        /\ ax_co[b].ret = BatchTexts(ax_batches[b])
        /\ \A j \in 1..Len(ax_batches[b]) : ax_calls[ax_batches[b][j] + 1] = 0
        /\ b \notin ax_pending =>
              \A j \in 1..Len(ax_batches[b]) :
                  ax_result[ax_batches[b][j] + 1] = TaskText(ax_batches[b][j])

\* C22: no exception of a translator call leaves
\* _execute_translation_tasks; every failure becomes a result value of the
\* affected tasks (the translation or the task's own text).
C22_NoExceptionLeaves ==
    /\ ax_main # "raised"
    /\ \A b \in 1..Len(ax_batches) :
          (b \notin ax_pending /\ ax_main \in {"waiting", "done"}) =>
              \A j \in 1..Len(ax_batches[b]) :
                  LET i == ax_batches[b][j]
                  IN  /\ ax_result[i + 1] \in {TaskText(i), Tr(TaskText(i))}
                      /\ ax_co[b].exc => ax_result[i + 1] = TaskText(i)

\* the run is over; the coroutine of one batch raised, the single call of
\* another failed
C22_Witness ==
    /\ ax_main = "done"
    /\ \E b \in 1..Len(ax_batches) : ax_co[b].exc
    /\ \E b \in 1..Len(ax_batches) :
          IsSingle(b) /\ ax_co[b].ret = BatchTexts(ax_batches[b])

\* C27: each task's result field is assigned at most once during a run:
\* every task is in exactly one batch and each batch's completion is
\* processed once.
C27_ResultWrittenOnce ==
    ax_main \in {"waiting", "done"} =>
        /\ \A k \in 1..Len(ax_tasks) :
              /\ ax_writes[k] <= 1
              /\ Cardinality({b \in 1..Len(ax_batches) :
                                 (k - 1) \in Range(ax_batches[b])}) = 1
        /\ \A b \in 1..Len(ax_batches) : b \notin ax_pending =>
              \A j \in 1..Len(ax_batches[b]) : ax_writes[ax_batches[b][j] + 1] = 1

\* several batches were collected in more than one round
C27_Witness ==
    /\ ax_main = "done"
    /\ Len(ax_batches) > 1
    /\ \A k \in 1..Len(ax_tasks) : ax_writes[k] = 1

\* C29: next_index_to_apply starts at 0 and grows by one per applied task;
\* the applied tasks are exactly 0..next_index_to_apply-1; and after each
\* round of completions next_index_to_apply is not in ready_tasks.
C29_LowWaterMark ==
    /\ [](ax_main = "start" => ax_next = 0)
    /\ [](/\ Len(ax_applied) = ax_next
          /\ Range(ax_applied) = 0..(ax_next - 1)
          /\ ax_next \notin ax_ready)
    /\ [][/\ ax_next' >= ax_next
          /\ ax_next' - ax_next = Len(ax_applied') - Len(ax_applied)
          /\ SubSeq(ax_applied', 1, Len(ax_applied)) = ax_applied]_vars

\* two tasks are applied while the batch of the third is still pending:
\* results are applied as the mark reaches them, not at the end
C29_Witness ==
    /\ ax_main = "waiting"
    /\ ax_next = 2
    /\ ax_pending # {}
    /\ Len(ax_batches) = Len(ax_tasks)

\* C30: _apply_translated_text is called only by the loop of
\* _execute_translation_tasks itself, never by a step of a translation
\* coroutine: a step that mutates the document changes no coroutine and no
\* translator call, so one mutation at a time is under way.
C30_OnlyOrchestratorMutates ==
    [][ax_applied' # ax_applied =>
          /\ ax_main = "waiting"
          /\ ax_co' = ax_co
          /\ ax_inflight' = ax_inflight
          /\ ax_sem' = ax_sem]_vars

\* the document has been mutated while translator calls are in flight
C30_Witness ==
    /\ ax_applied # <<>>
    /\ ax_inflight > 0

-----------------------------------------------------------------------------
(* TranslationCache.save and the snapshot file *)

PreviousOrNew ==
    \/ ps_files[ps_cfg.cache_file] = ps_prev
    \/ ps_files[ps_cfg.cache_file] = [exists |-> TRUE, content |-> Serialize(ps_cache)]

\* C23: at every step of save, and so after a stop between any two steps,
\* the file at the cache path is the previous complete snapshot (or absent)
\* or the new complete snapshot, never a partly written one.
C23_SnapshotNeverPartial ==
    ps_pc \in {"start", "writing", "saved", "returned", "crashed"} => PreviousOrNew

\* With a temporary path that is another path than the cache path the file
\* at the cache path is never partly written.
SnapshotNeverPartialWithOtherTempPath ==
    (/\ ps_pc \in {"start", "writing", "saved", "returned", "crashed"}
     /\ TempFile(ps_cfg.cache_file) # ps_cfg.cache_file) => PreviousOrNew

\* C24: after save, a TranslationCache constructed on the same file gives,
\* for every entry that has not expired, the translation the saved cache
\* gives, and holds no entry that was expired when it was loaded.
C24_SnapshotRoundTrip ==
    ps_pc = "loaded" =>
        /\ \A req \in Requests :
              GetResult(ps_new, req, ps_now, ps_cfg.expiry_days)
                  = GetResult(ps_cache, req, ps_now, ps_cfg.expiry_days)
        /\ \A k \in 1..Len(ps_cache) :
              IsExpired(ps_cache[k], ps_now, ps_cfg.expiry_days)
                  => KeyIndex(ps_new, ps_cache[k].key) = 0

\* a saved cache with a live and an expired entry was loaded again: the live
\* entry answers, the expired one is gone
C24_Witness ==
    /\ ps_pc = "loaded"
    /\ ps_new # <<>>
    /\ Len(ps_new) < Len(ps_cache)
    /\ \E req \in Requests :
          GetResult(ps_new, req, ps_now, ps_cfg.expiry_days) # None

-----------------------------------------------------------------------------
(* The cache under several in-flight batches *)

\* C25: the mutating operations of the cache (get with its touch or expiry
\* delete, set with its eviction) of different in-flight calls never overlap:
\* at most one call is inside get or set, and while one is inside, it is the
\* call the event loop is running; this holds with a client driven as a
\* coroutine and with a client driven through the thread pool.
C25_CacheOperationsSerialized ==
    /\ Cardinality(sr_inop) <= 1
    /\ \A c \in sr_inop : sr_loop = c /\ sr_where[c] = "loop"

\* one call is inside a cache operation while the client request of another
\* call, which has already looked the cache up, runs in a worker thread
C25_Witness ==
    /\ sr_cfg.cache
    /\ \E c, d \in InFlight :
          /\ c # d
          /\ c \in sr_inop
          /\ sr_pc[d] = "client_in_thread"

-----------------------------------------------------------------------------
(* Formatting clone and a property that raises *)

\* the statement k has had its effect on the target
Cloned(k) == (cl_props[k].guarded /\ ~cl_source[k]) \/ k \in cl_target

\* C26: when the read or write of one property raises, the function has,
\* when it returns, still cloned every property listed after it.
C26_RemainingPropertiesCloned ==
    (cl_pc = "returned" /\ cl_fail # 0) =>
        \A k \in (cl_fail + 1)..Len(cl_props) : Cloned(k)

\* The function never raises: it returns with every property before the
\* failing one cloned, and with every property after the failing one's try
\* block cloned when that block's handler takes the exception.
PropertiesBeforeFailureCloned ==
    (cl_pc = "returned" /\ cl_fail # 0) =>
        /\ \A k \in 1..(cl_fail - 1) : Cloned(k)
        /\ (cl_props[cl_fail].block # 0 /\ Catches(cl_props[cl_fail].block, cl_exc))
              => \A k \in AfterBlock(cl_props, cl_fail)..Len(cl_props) : Cloned(k)

-----------------------------------------------------------------------------
(* _optimize_by_size as the greedy sequential packing *)

\* the branch of optimize_batches that does not group (lines 79-84)
WithoutGrouping ==
    ~(bo_cfg.enable_context_grouping /\ ContextsGiven(bo_contexts)
          /\ Len(bo_contexts) = Len(bo_texts))

CharsOf(batch) == SumSeq([j \in 1..Len(batch) |-> Len(bo_texts[batch[j] + 1])])

\* C28: without grouping the batches are consecutive index ranges that
\* concatenate to 0..n-1; the text that opens a batch would not have fitted
\* in the batch before it (count or characters), every other text did fit
\* when it was added, and a text longer than the character limit stands
\* alone; lengths [1,1,1,1,1000] under limits 10 and 10 give [[0,1,2,3],[4]],
\* five texts of one character under max_batch_size 2 give [[0,1],[2,3],[4]].
C28_GreedySequentialPacking ==
    (bo_pc = "optimized" /\ WithoutGrouping) =>
        /\ Flatten(bo_batches) = [i \in 1..Len(bo_texts) |-> i - 1]
        /\ \A b \in 1..Len(bo_batches) : bo_batches[b] # <<>>
        /\ \A b \in 1..(Len(bo_batches) - 1) :
              \/ Len(bo_batches[b]) >= bo_cfg.max_batch_size
              \/ CharsOf(bo_batches[b]) + Len(bo_texts[bo_batches[b + 1][1] + 1])
                     > bo_cfg.max_chars_per_batch
        /\ \A b \in 1..Len(bo_batches) : \A j \in 2..Len(bo_batches[b]) :
              /\ j - 1 < bo_cfg.max_batch_size
              /\ CharsOf(SubSeq(bo_batches[b], 1, j)) <= bo_cfg.max_chars_per_batch
        /\ \A b \in 1..Len(bo_batches) :
              (\E j \in 1..Len(bo_batches[b]) :
                  Len(bo_texts[bo_batches[b][j] + 1]) > bo_cfg.max_chars_per_batch)
                  => Len(bo_batches[b]) = 1
        /\ (bo_texts = LongTexts /\ bo_cfg = LongTextsConfig)
              => bo_batches = << <<0, 1, 2, 3>>, <<4>> >>
        /\ (bo_texts = FiveTexts /\ bo_cfg = FiveTextsConfig)
              => bo_batches = << <<0, 1>>, <<2, 3>>, <<4>> >>

\* the scenario with the text of 1000 characters was planned: four texts in
\* one batch, the long one alone
C28_Witness ==
    /\ bo_pc = "optimized"
    /\ WithoutGrouping
    /\ bo_texts = LongTexts
    /\ bo_cfg = LongTextsConfig
    /\ Len(bo_batches) = 2

-----------------------------------------------------------------------------
(* _translate_batch: the dispatch of a planned batch *)

\* C31: every batch is dispatched once: a started batch of one task has made
\* one call of translate_text_async and none of translate_batch_async, a
\* started batch of several tasks one call of translate_batch_async and no
\* direct call of translate_text_async, before any per-text call of its
\* fallback; a batch not yet started has made none; and a single-item call
\* that raises leaves the original text as the result of the batch.
C31_DispatchedOnce ==
    /\ [](\A b \in 1..Len(ax_batches) :
            /\ ax_co[b].pc = "new" =>
                  /\ ax_co[b].text_calls = 0 /\ ax_co[b].batch_calls = 0
                  /\ ax_co[b].subs = <<>>
            /\ (ax_co[b].pc # "new" /\ Len(ax_batches[b]) = 1) =>
                  /\ ax_co[b].text_calls = 1 /\ ax_co[b].batch_calls = 0
                  /\ ax_co[b].subs = <<>>
            /\ (ax_co[b].pc # "new" /\ Len(ax_batches[b]) > 1) =>
                  ax_co[b].text_calls = 0 /\ ax_co[b].batch_calls = 1)
    /\ [][\A b \in 1..Len(ax_batches) :
            SingleRaises(b) =>
                /\ ax_co'[b].pc = "finished" /\ ~ax_co'[b].exc
                /\ ax_co'[b].ret = <<TaskText(ax_batches[b][1])>>]_vars

\* a batch of one task whose call raised has finished with the original
\* text, next to a finished batch of two tasks
C31_Witness ==
    \E b, c \in 1..Len(ax_batches) :
        /\ Len(ax_batches[b]) = 1 /\ ax_co[b].pc = "finished"
        /\ ax_co[b].ret = <<TaskText(ax_batches[b][1])>>
        /\ Len(ax_batches[c]) = 2 /\ ax_co[c].pc = "finished"

-----------------------------------------------------------------------------
(* AsyncTranslatorWrapper: the semaphore and the statistics *)

\* the per-text calls of the fallbacks that stand at v
SubsAt(v) ==
    {bj \in UNION {{<<b, j>> : j \in 1..Len(ax_co[b].subs)} : b \in 1..Len(ax_batches)} :
        ax_co[bj[1]].subs[bj[2]] = v}

\* the calls inside `async with self.semaphore`
PermitHolders ==
    Cardinality({b \in 1..Len(ax_batches) : ax_co[b].pc = "call"})
        + Cardinality(SubsAt("call"))

AllCoroutinesFinished == \A b \in 1..Len(ax_batches) : ax_co[b].pc = "finished"

\* C32: the free permits and the calls inside the semaphore always add up to
\* max_concurrent; a batch request that raises gives its permit back in the
\* step in which its per-text fallback is set up, with no per-text call
\* started; and once the batches are planned every coroutine finishes, for
\* max_concurrent = 1 too, with all max_concurrent permits free.
C32_PermitsReleased ==
    /\ [](ax_sem + PermitHolders = ax_cfg.max_concurrent)
    /\ [][\A b \in 1..Len(ax_batches) :
            BatchRaises(b) =>
                /\ ax_sem' = ax_sem + 1
                /\ \A j \in 1..Len(ax_batches[b]) : ax_co'[b].subs[j] = "want"]_vars
    /\ (ax_main = "waiting") ~>
           (AllCoroutinesFinished /\ ax_sem = ax_cfg.max_concurrent)

\* with a single permit a batch request raised, its fallback ran and the run
\* ended with the permit free
C32_Witness ==
    /\ ax_cfg.max_concurrent = 1
    /\ ax_main = "done"
    /\ \E b \in 1..Len(ax_batches) : ax_co[b].raised /\ ax_co[b].pc = "finished"
    /\ ax_sem = 1

\* the single-item batches whose call raised
FailedSingles ==
    {b \in 1..Len(ax_batches) :
        /\ Len(ax_batches[b]) = 1 /\ ax_co[b].pc = "finished"
        /\ ax_co[b].ret = <<TaskText(ax_batches[b][1])>>}

\* C39: total_requests is the number of calls made to the translator (the
\* single-item calls and the batch requests, each once); failed_requests is
\* the number of those that raised; with no call in flight total_requests =
\* successful_requests + failed_requests; a batch whose request raised and
\* whose fallback is over stands for one batch request and one single-item
\* call per text.
C39_StatsConsistent ==
    ax_main # "start" =>
        /\ ax_stats.total_requests
              = SumSeq(ax_calls) + SumSeq([b \in 1..Len(ax_batches) |-> ax_co[b].requests])
        /\ ax_stats.failed_requests
              = Cardinality({b \in 1..Len(ax_batches) : ax_co[b].raised})
                  + Cardinality(SubsAt("err")) + Cardinality(FailedSingles)
        /\ ax_inflight = 0 =>
              ax_stats.total_requests
                  = ax_stats.successful_requests + ax_stats.failed_requests
        /\ \A b \in 1..Len(ax_batches) :
              (ax_co[b].raised /\ ax_co[b].pc = "finished") =>
                  /\ ax_co[b].requests = 1
                  /\ \A j \in 1..Len(ax_batches[b]) : ax_calls[ax_batches[b][j] + 1] = 1

\* no call is in flight after a batch of two whose request raised: three
\* requests were counted, one of them the failed batch request
C39_Witness ==
    /\ ax_inflight = 0
    /\ Len(ax_tasks) = 2
    /\ \E b \in 1..Len(ax_batches) : ax_co[b].raised /\ ax_co[b].pc = "finished"
    /\ ax_stats.total_requests = 3
    /\ ax_stats.failed_requests >= 1

-----------------------------------------------------------------------------
(* _apply_translated_text: paragraphs without runs, and the chunks *)

\* C33: for a paragraph that has no runs at all, _apply_translated_text
\* still builds the translation paragraph, with one run that carries the
\* whole translated text.
C33_NoRunsGivesOneRun ==
    (rr_pc = "applied" /\ RunTexts(rr_para) = <<>> /\ rr_S # <<>>) =>
        /\ Len(rr_out) = 1
        /\ rr_out[1].text = rr_S

\* translated_limit of run r, and the limit of the non-empty run before it
LimitOf(r) ==
    TranslatedLimit(SumSeq([q \in 1..r |-> Len(rr_para.runs[q])]),
                    Len(ParagraphText(rr_para)), Len(rr_S), rr_fp)

PrevLimitOf(r) ==
    LET before == {q \in 1..(r - 1) : rr_para.runs[q] # <<>>}
    IN  IF before = {} THEN 0
        ELSE LimitOf(CHOOSE q \in before : \A q2 \in before : q2 <= q)

ChunksFollowRuns ==
    /\ \A k \in 1..Len(rr_out) :
          /\ rr_out[k].text # <<>>
          /\ rr_para.runs[rr_out[k].original_run] # <<>>
    /\ \A k \in 1..(Len(rr_out) - 1) :
          /\ rr_out[k].original_run < rr_out[k + 1].original_run
          /\ rr_out[k].text = Slice(rr_S, PrevLimitOf(rr_out[k].original_run),
                                          LimitOf(rr_out[k].original_run))
    /\ rr_out # <<>> =>
          rr_out[Len(rr_out)].text
              = Slice(rr_S, PrevLimitOf(rr_out[Len(rr_out)].original_run), Len(rr_S))
    /\ \A r \in 1..Len(rr_para.runs) :
          (rr_para.runs[r] # <<>> /\ Slice(rr_S, PrevLimitOf(r), LimitOf(r)) # <<>>)
              => \E k \in 1..Len(rr_out) : rr_out[k].original_run = r

\* C34: the chunks are non-empty, each is bound to a non-empty run of its
\* own, in the order of the runs; the chunk of a run is S[prevLimit:limit]
\* with limit = floor((offset + L) / total * len(S)), and what is left of S
\* after the last run is appended to the last chunk.
C34_ChunksFollowRuns ==
    (rr_pc = "applied" /\ rr_S # <<>>) => ChunksFollowRuns

\* The same for paragraphs whose text lies in their runs only.
ChunksFollowRunsWithoutHyperlinks ==
    (rr_pc = "applied" /\ rr_S # <<>> /\ rr_para.link = <<>>) => ChunksFollowRuns

-----------------------------------------------------------------------------
(* Claims about header/footer regions, unsupported containers and tasks *)

\* the contexts of a list that carry a location and a section index
Tagged(contexts, location, section_index) ==
    SelectSeq(contexts, LAMBDA ctx : ctx.location = location
                                     /\ ctx.section_index = section_index)

\* the paragraphs under a container, those in its tables included
ParagraphsUnder(doc, container) ==
    {node \in UNION {BlocksOf(doc, c) : c \in ReachedFrom(doc, {container})} :
        IsParagraph(node)}

TraversalRoots(doc) ==
    {Body} \cup {slot.part : slot \in {slot \in UNION {Range(doc.sections[s]) :
                                                          s \in 1..Len(doc.sections)} :
                                           ~slot.linked /\ slot.part # NoPart}}

UnsupportedContainers(doc) ==
    {c \in ReachedFrom(doc, TraversalRoots(doc)) : ~Supported(doc, c)}

\* C36: a container the traversal cannot iterate yields no contexts, a
\* warning is recorded for it in the traversal result, and the other
\* containers are traversed: collect_document_contexts does not raise.
C36_UnsupportedContainerRecorded ==
    (Collected /\ UnsupportedContainers(tv_orig) # {}) =>
        /\ Len(tv_warnings) >= Cardinality(UnsupportedContainers(tv_orig))
        /\ {tv_contexts[i].paragraph : i \in 1..Len(tv_contexts)}
              = ReachableParagraphs(tv_orig)

\* An unsupported container stops nothing: the paragraphs of the other
\* containers are all collected.
UnsupportedContainerSkipped ==
    (Collected /\ UnsupportedContainers(tv_orig) # {}) =>
        {tv_contexts[i].paragraph : i \in 1..Len(tv_contexts)}
            = ReachableParagraphs(tv_orig)

\* C38: the tasks of _create_translation_tasks carry the indices 0..n-1
\* without gap or duplicate: the index of a task is its position in the
\* task list, and the tasks are the contexts with text that is not blank,
\* in traversal order.
C38_TaskIndexIsPosition ==
    (tv_mode = "async" /\ tv_pc \in {"tasks", "done"}) =>
        /\ \A k \in 1..Len(tv_tasks) : tv_tasks[k].index = k - 1
        /\ [k \in 1..Len(tv_tasks) |-> tv_tasks[k].context]
              = SelectSeq(tv_contexts,
                          LAMBDA ctx : ~IsBlank(TextOfParagraph(ctx.paragraph)))
        /\ \A k \in 1..Len(tv_tasks) :
              tv_tasks[k].text = TextOfParagraph(tv_tasks[k].context.paragraph)

\* two tasks were built and a blank paragraph stands before the second
C38_Witness ==
    /\ tv_pc = "tasks"
    /\ Len(tv_tasks) >= 2
    /\ \E i, j \in 1..Len(tv_contexts) :
          /\ i < j
          /\ IsBlank(TextOfParagraph(tv_contexts[i].paragraph))
          /\ tv_contexts[j] = tv_tasks[2].context

-----------------------------------------------------------------------------
(* Claims about context grouping *)

\* grouping is in force: enabled, and a context per text
WithGrouping ==
    /\ bo_cfg.enable_context_grouping
    /\ bo_contexts # NoContexts
    /\ bo_texts # <<>>
    /\ Len(bo_contexts) = Len(bo_texts)

\* the grouping key of the text with index i: its context, and the default
\* group for a context that is missing or empty
KeyOfIndex(i) ==
    IF bo_contexts[i + 1] \in {NoneStr, ""} THEN "default" ELSE bo_contexts[i + 1]

\* the batches of a key, in the order returned
BatchesOfKey(key) ==
    SelectSeq(bo_batches, LAMBDA batch : batch # <<>> /\ KeyOfIndex(batch[1]) = key)

\* the indices of a key in input order
IndicesOfKey(key) ==
    SelectSeq([i \in 1..Len(bo_texts) |-> i - 1], LAMBDA i : KeyOfIndex(i) = key)

\* C37: with context grouping enabled and one context per text, every batch
\* holds texts of one grouping key only (a missing or empty context is the
\* default group), and within a group the greedy packing runs in input
\* order: the group's batches concatenate to the group's indices in input
\* order, a batch is closed only when the next text of the group would not
\* fit, and every text added to a batch did fit; the texts of
\* test_context_grouping give [[0,2],[1,3]].
C37_BatchesShareOneKey ==
    (bo_pc = "optimized" /\ WithGrouping) =>
        /\ \A b \in 1..Len(bo_batches) : \A j, k \in 1..Len(bo_batches[b]) :
              KeyOfIndex(bo_batches[b][j]) = KeyOfIndex(bo_batches[b][k])
        /\ \A key \in {KeyOfIndex(i - 1) : i \in 1..Len(bo_texts)} :
              LET mine == BatchesOfKey(key)
              IN  /\ Flatten(mine) = IndicesOfKey(key)
                  /\ \A b \in 1..(Len(mine) - 1) :
                        \/ Len(mine[b]) >= bo_cfg.max_batch_size
                        \/ CharsOf(mine[b]) + Len(bo_texts[mine[b + 1][1] + 1])
                               > bo_cfg.max_chars_per_batch
                  /\ \A b \in 1..Len(mine) : \A j \in 2..Len(mine[b]) :
                        /\ j - 1 < bo_cfg.max_batch_size
                        /\ CharsOf(SubSeq(mine[b], 1, j)) <= bo_cfg.max_chars_per_batch
        /\ (bo_texts = GroupedTexts /\ bo_contexts = GroupedContexts /\ bo_cfg = GroupedConfig)
              => bo_batches = << <<0, 2>>, <<1, 3>> >>

\* three texts whose contexts alternate were grouped: the first and the
\* third share a batch, the second stands between them in the input
C37_Witness ==
    /\ bo_pc = "optimized"
    /\ WithGrouping
    /\ Len(bo_texts) = 3
    /\ bo_batches = << <<0, 2>>, <<1>> >>
    /\ KeyOfIndex(1) = "default"

=============================================================================
